---- MODULE Spec2Model ----
(***************************************************************************)
(* A model of the picker engine of fall.vim: the global event queue, the   *)
(* collect / match / sort / render processors, the picker's scheduler      *)
(* tick, the session store and the startPicker loop of the entrypoint.     *)
(*                                                                         *)
(* Item values and queries are coded as naturals.  An item is a record     *)
(* [id, value]; an event is a record [type, arg] where arg carries the     *)
(* event's payload (cmdline, amount, cursor, index, err) or NoArg.         *)
(***************************************************************************)
EXTENDS Naturals, Integers, Sequences, FiniteSets, TLC

\* ------------------------------------------------------------------ bounds
\* Events dispatched in a behaviour of the event-queue specification.
MaxDispatch == 5
\* Longest sequence a finite source yields.
MaxSrcLen == 5
\* CollectProcessorOptions.threshold / chunkSize given to the processor.
Threshold == 4
ChunkSize == 2
\* pause() calls in a behaviour of the collect specification.
MaxPause == 2
\* Items the source of the picker specification yields.
SeqLen == 2
\* Length of the lists handed to a processor that is called directly.
MaxItems == 3

NoArg == "-"
Event(t, a) == [type |-> t, arg |-> a]

VARIABLES
  eventQueue,        \* event.ts: let eventQueue
  consumer,          \* the consume() call in progress: its locals events, i
  delivered,         \* history: the events handed to a consumer, in order
  nDispatched,       \* history: number of dispatch() calls so far
  dispatchedDuring,  \* history: serials dispatched while a consume() ran
  source,            \* the Source given to the collect processor
  collectProcessor,  \* CollectProcessor fields and the locals of its run
  renderProcessor,   \* RenderProcessor fields and the locals of its run
  matchProcessor,    \* MatchProcessor fields and the locals of its run
  sortProcessor,     \* SortProcessor fields and the locals of its run
  previewProcessor,  \* PreviewProcessor fields and the locals of its run
  picker,            \* Picker: the input component and the tick's locals
  sessions,          \* session.ts: const sessions
  main,              \* main/picker.ts: the startPicker calls in progress
  debounced          \* lib/debounce.ts: a debounced function and its timers

vars == <<eventQueue, consumer, delivered, nDispatched, dispatchedDuring,
          source, collectProcessor, renderProcessor, matchProcessor,
          sortProcessor, previewProcessor, picker, sessions, main, debounced>>
\* What the operations of one component leave alone.  No operation of the
\* event queue, of the collect, match, sort or render processor or of a
\* picker touches the session store, the entrypoint, the debounced function
\* or the preview processor.
mainVars == <<sessions, main, debounced, previewProcessor>>
consumeVars == <<consumer, delivered, nDispatched, dispatchedDuring, mainVars>>
notEvent == <<source, collectProcessor, renderProcessor, matchProcessor,
              sortProcessor, picker, mainVars>>
notMain == <<eventQueue, consumer, delivered, nDispatched, dispatchedDuring,
             source, collectProcessor, renderProcessor, matchProcessor,
             sortProcessor, picker, debounced, previewProcessor>>
notDebounce == <<eventQueue, consumer, delivered, nDispatched, dispatchedDuring,
                 source, collectProcessor, renderProcessor, matchProcessor,
                 sortProcessor, picker, sessions, main, previewProcessor>>
notPreview == <<consumer, delivered, nDispatched, dispatchedDuring,
                source, collectProcessor, renderProcessor, matchProcessor,
                sortProcessor, picker, sessions, main, debounced>>
\* What a scheduler tick of the picker leaves alone.
notTick == <<consumer, delivered, nDispatched, dispatchedDuring, sessions,
             main, source, collectProcessor>>
notCollect == <<consumeVars, renderProcessor, matchProcessor, sortProcessor,
                picker>>
notRender == <<consumeVars, source, collectProcessor, matchProcessor,
               sortProcessor, picker>>
notMatch == <<consumeVars, source, collectProcessor, renderProcessor,
              sortProcessor, picker>>
notSort == <<consumeVars, source, collectProcessor, renderProcessor,
             matchProcessor, picker>>

Range(s) == {s[i] : i \in 1..Len(s)}

\* No handler of a processor's .catch().finally().then() is waiting in the
\* microtask queue.  Timers, the scheduler tick and what arrives over RPC come
\* after the microtasks.
NoMicrotask ==
  /\ matchProcessor.chain = "none"
  /\ sortProcessor.chain = "none"
  /\ renderProcessor.chain = "none"
  /\ previewProcessor.chain = "none"

\* ============================================================ event queue
\* event.ts dispatch(): eventQueue.push(event)
dispatch(queue, event) == Append(queue, event)

RECURSIVE dispatchAll(_, _)
dispatchAll(queue, evs) ==
  IF evs = <<>> THEN queue
  ELSE dispatchAll(dispatch(queue, Head(evs)), Tail(evs))

IdleConsumer == [active |-> FALSE, events |-> <<>>, i |-> 0, mark |-> 0]

\* A dispatch() call, from outside or from the consumer callback of a
\* consume() in progress.  The payload is the serial number of the call.
EvDispatch ==
  /\ nDispatched < MaxDispatch
  /\ nDispatched' = nDispatched + 1
  /\ eventQueue' = dispatch(eventQueue, Event("vim-cmdpos-changed", nDispatched + 1))
  /\ dispatchedDuring' = IF consumer.active
                           THEN dispatchedDuring \cup {nDispatched + 1}
                           ELSE dispatchedDuring
  /\ UNCHANGED <<consumer, delivered, notEvent>>

\* Mutant of consume()'s entry: the queue is not swapped out.
EvConsumeBeginNoSwap ==
  /\ ~consumer.active
  /\ eventQueue # <<>>
  /\ consumer' = [active |-> TRUE, events |-> eventQueue, i |-> 0,
                  mark |-> nDispatched]
  /\ UNCHANGED <<eventQueue, delivered, nDispatched, dispatchedDuring, notEvent>>

\* consume(), lines 11-14: take the queue, return when it is empty, else
\* replace it by a fresh array before the loop.
EvConsumeBegin ==
  /\ ~consumer.active
  /\ IF Len(eventQueue) = 0
       THEN /\ consumer' = [IdleConsumer EXCEPT !.mark = nDispatched]
            /\ UNCHANGED eventQueue
       ELSE /\ consumer' = [active |-> TRUE, events |-> eventQueue, i |-> 0,
                            mark |-> nDispatched]
            /\ eventQueue' = <<>>
  /\ UNCHANGED <<delivered, nDispatched, dispatchedDuring, notEvent>>

\* consume(), lines 16-18: one iteration of the loop, consumer(events[i]).
EvConsumeDeliver ==
  /\ consumer.active
  /\ consumer.i < Len(consumer.events)
  /\ delivered' = Append(delivered, consumer.events[consumer.i + 1])
  /\ consumer' = [consumer EXCEPT !.i = @ + 1]
  /\ UNCHANGED <<eventQueue, nDispatched, dispatchedDuring, notEvent>>

\* consume(): the loop condition fails and the call returns.
EvConsumeReturn ==
  /\ consumer.active
  /\ consumer.i = Len(consumer.events)
  /\ consumer' = [IdleConsumer EXCEPT !.mark = consumer.mark]
  /\ UNCHANGED <<eventQueue, delivered, nDispatched, dispatchedDuring, notEvent>>

\* ============================================================== sources
\* A source of kind "any" yields up to MaxSrcLen values of Values, chosen
\* freely (repeats allowed), and then ends or throws; a source of kind "inf"
\* never ends and yields pairwise distinct values; a source of kind "seq"
\* yields SeqLen pairwise distinct values and ends.  seen / repeated record
\* which values it has yielded and whether it has yielded one twice.
Values == {1, 2, 3}
NewSource(kind) == [kind |-> kind, seen |-> {}, repeated |-> FALSE]
\* The stream of the source is over once it has yielded taken items.
SourceEnds(src, taken) ==
  \/ src.kind = "any"
  \/ src.kind = "seq" /\ taken >= SeqLen
\* The value an "inf" source yields at position pos (1-based).
FreshValue(pos) == Cardinality(Values) + pos
SourceYield(src, v) ==
  [src EXCEPT !.seen = @ \cup {v}, !.repeated = @ \/ v \in src.seen]

\* ======================================================= UniqueOrderedList
\* A list is a record [items, seen] (#items, #seen).
\* collect.ts:110, the identifier the collect processor gives its list.
Identifier(item) == item.value

\* Mutant of #uniq: the identifier is never looked up in #seen.
RECURSIVE ListUniqNoSeen(_, _)
ListUniqNoSeen(list, xs) ==
  IF xs = <<>> THEN list
  ELSE ListUniqNoSeen([items |-> Append(list.items, Head(xs)),
                       seen |-> list.seen \cup {Identifier(Head(xs))}], Tail(xs))

\* UniqueOrderedList.#uniq followed by the push of what it yields
\* (constructor and push()): xs filtered through #seen and appended to #items.
RECURSIVE ListUniq(_, _)
ListUniq(list, xs) ==
  IF xs = <<>> THEN list
  ELSE LET id == Identifier(Head(xs)) IN
       IF id \in list.seen
         THEN ListUniq(list, Tail(xs))
         ELSE ListUniq([items |-> Append(list.items, Head(xs)),
                        seen |-> list.seen \cup {id}], Tail(xs))

EmptyList == [items |-> <<>>, seen |-> {}]
\* new UniqueOrderedList(init, {identifier})
NewList(init) == ListUniq(EmptyList, init)
\* UniqueOrderedList.push(...items)
ListPush(list, xs) == ListUniq(list, xs)

\* ================================================================ Chunker
\* Chunker.put(item): append; true iff the count reached chunkSize.
ChunkerPut(chunk, item) == Append(chunk, item)
ChunkerFull(chunk, size) == Len(chunk) >= size

\* ====================================================== collect processor
\* The items a picker hands over as CollectProcessorOptions.initialItems:
\* nothing, or the collected items of an earlier session.
InitialItemSets ==
  { <<>>,
    <<[id |-> 0, value |-> 1]>>,
    <<[id |-> 0, value |-> 1], [id |-> 1, value |-> 2]>> }

\* new CollectProcessor(source, {initialItems}), run not yet started.
NewCollectProcessor(init) ==
  [ list       |-> NewList(init),
    initial    |-> init,       \* history: the initialItems option
    processing |-> FALSE,      \* #processing is set
    paused     |-> 0,          \* #paused: 0 (undefined) or a promise id
    nPaused    |-> 0,          \* promises made by pause() so far
    resolved   |-> {},         \* the pause promises that are resolved
    aborted    |-> FALSE,      \* #controller.signal.aborted
    pc         |-> "idle",     \* where the run is: idle, next, paused, done
    settled    |-> "none",     \* how the run ended: ok, null, error
    taken      |-> 0,          \* items take() has let through
    chunker    |-> <<>>,       \* the Chunker of the run
    held       |-> 0,          \* the item in hand while awaiting #paused
    awaiting   |-> 0 ]         \* the promise the run awaits

\* update(chunk) of CollectProcessor.start, without its dispatch: ids are the
\* index in the chunk plus the list size before the push.
CollectUpdate(list, chunk) ==
  LET offset == Len(list.items)
      mapped == [i \in 1..Len(chunk) |-> [id |-> (i - 1) + offset, value |-> chunk[i]]]
  IN ListPush(list, mapped)

\* The run rejects with err and, a microtask later, its catch handler
\* dispatches collect-processor-failed.
CollectReject(cp, err) ==
  /\ collectProcessor' = [cp EXCEPT !.pc = "done", !.settled = err,
                                     !.held = 0, !.awaiting = 0]
  /\ eventQueue' = dispatch(eventQueue, Event("collect-processor-failed", err))

\* Body of the for-await loop once the pause barrier is passed, for item v:
\* throwIfAborted, then put and, when the chunk is full or chunkInterval has
\* elapsed, update(chunker.consume()).
CollectItem(cp, v, elapsed) ==
  IF cp.aborted
    THEN CollectReject(cp, "null")
    ELSE LET chunk == ChunkerPut(cp.chunker, v) IN
         IF ChunkerFull(chunk, ChunkSize) \/ elapsed
           THEN /\ collectProcessor' =
                     [cp EXCEPT !.list = CollectUpdate(@, chunk), !.chunker = <<>>,
                                !.pc = "next", !.held = 0, !.awaiting = 0]
                /\ eventQueue' = dispatch(eventQueue, Event("collect-processor-updated", NoArg))
           ELSE /\ collectProcessor' =
                     [cp EXCEPT !.chunker = chunk, !.pc = "next",
                                !.held = 0, !.awaiting = 0]
                /\ UNCHANGED eventQueue

\* The iterator is done: flush the partial chunk, dispatch succeeded.
CollectFinish ==
  /\ collectProcessor' =
       [collectProcessor EXCEPT
          !.list = IF Len(collectProcessor.chunker) > 0
                     THEN CollectUpdate(@, collectProcessor.chunker) ELSE @,
          !.chunker = <<>>, !.pc = "done", !.settled = "ok"]
  /\ eventQueue' =
       dispatchAll(eventQueue,
         (IF Len(collectProcessor.chunker) > 0
            THEN <<Event("collect-processor-updated", NoArg)>> ELSE <<>>)
         \o <<Event("collect-processor-succeeded", NoArg)>>)

\* Mutant of start(): #processing is not looked at, every call begins a run.
CollectStartAgain ==
  /\ ~collectProcessor.aborted
  /\ collectProcessor' =
       [collectProcessor EXCEPT !.processing = TRUE, !.pc = "next",
                                !.taken = 0, !.chunker = <<>>,
                                !.held = 0, !.awaiting = 0]
  /\ eventQueue' = dispatch(eventQueue, Event("collect-processor-started", NoArg))
  /\ UNCHANGED <<source, notCollect>>

\* CollectProcessor.start(): resume when a run exists, else begin the run up
\* to its first await.
CollectStart ==
  /\ ~collectProcessor.aborted
  /\ IF collectProcessor.processing
       THEN /\ collectProcessor.paused # 0
            /\ collectProcessor' =
                 [collectProcessor EXCEPT
                    !.resolved = @ \cup {collectProcessor.paused}, !.paused = 0]
            /\ UNCHANGED eventQueue
       ELSE /\ collectProcessor' =
                 [collectProcessor EXCEPT !.processing = TRUE, !.pc = "next"]
            /\ eventQueue' = dispatch(eventQueue, Event("collect-processor-started", NoArg))
  /\ UNCHANGED <<source, notCollect>>

\* Mutant of the take() limit: one item too many is let through.
TakeDoneOffByOne(taken) == taken > Threshold

\* take(source.collect(...), this.#threshold) is exhausted once threshold
\* items have passed.
TakeDone(taken) == taken >= Threshold

\* The run's await of the next item of take(source.collect(...), threshold)
\* settles: an item, the end of the stream, or an exception.
CollectNext ==
  /\ collectProcessor.pc = "next"
  /\ NoMicrotask
  /\ \/ \* take() has let threshold items through, or the source ended
        /\ \/ TakeDone(collectProcessor.taken)
           \/ SourceEnds(source, collectProcessor.taken)
        /\ CollectFinish
        /\ UNCHANGED source
     \/ \* the source throws
        /\ ~TakeDone(collectProcessor.taken)
        /\ source.kind = "any"
        /\ CollectReject(collectProcessor, "error")
        /\ UNCHANGED source
     \/ \* the source sees its signal aborted and throws the reason
        /\ ~TakeDone(collectProcessor.taken)
        /\ collectProcessor.aborted
        /\ CollectReject(collectProcessor, "null")
        /\ UNCHANGED source
     \/ \* the source yields its next item
        /\ ~TakeDone(collectProcessor.taken)
        /\ \E v \in Values \cup {FreshValue(collectProcessor.taken + 1)} :
             /\ IF source.kind = "any"
                  THEN v \in Values /\ collectProcessor.taken < MaxSrcLen
                  ELSE /\ v = FreshValue(collectProcessor.taken + 1)
                       /\ source.kind = "seq" =>
                            ~SourceEnds(source, collectProcessor.taken)
             /\ source' = SourceYield(source, v)
             /\ IF collectProcessor.paused # 0
                  THEN /\ collectProcessor' =
                            [collectProcessor EXCEPT
                               !.taken = @ + 1, !.pc = "paused", !.held = v,
                               !.awaiting = collectProcessor.paused]
                       /\ UNCHANGED eventQueue
                  ELSE \E elapsed \in BOOLEAN :
                         CollectItem([collectProcessor EXCEPT !.taken = @ + 1],
                                     v, elapsed)
  /\ UNCHANGED notCollect

\* The #paused promise the run awaits is resolved: the loop body goes on.
CollectResumed ==
  /\ collectProcessor.pc = "paused"
  /\ collectProcessor.awaiting \in collectProcessor.resolved
  /\ \E elapsed \in BOOLEAN :
       CollectItem(collectProcessor, collectProcessor.held, elapsed)
  /\ UNCHANGED <<source, notCollect>>

\* CollectProcessor.pause(): a fresh #paused promise, and an abort listener
\* that resolves whatever #paused is when the signal aborts.
CollectPause ==
  /\ ~collectProcessor.aborted
  /\ collectProcessor.processing
  /\ collectProcessor.nPaused < MaxPause
  /\ collectProcessor' =
       [collectProcessor EXCEPT !.paused = collectProcessor.nPaused + 1,
                                !.nPaused = @ + 1]
  /\ UNCHANGED <<eventQueue, source, notCollect>>

\* CollectProcessor[Symbol.dispose](): abort(null); the abort listeners run.
CollectDispose ==
  /\ ~collectProcessor.aborted
  /\ collectProcessor' =
       [collectProcessor EXCEPT
          !.aborted = TRUE,
          !.resolved = IF collectProcessor.paused # 0
                         THEN @ \cup {collectProcessor.paused} ELSE @]
  /\ UNCHANGED <<eventQueue, source, notCollect>>

CountEvents(t) ==
  Cardinality({k \in 1..Len(eventQueue) : eventQueue[k].type = t})

\* ---------------------------------------------------------------- Render
Max(a, b) == IF a >= b THEN a ELSE b
Min(a, b) == IF a <= b THEN a ELSE b

\* The lists handed to the processors: item k has id k - 1 and value k.
ItemsUpTo(n) == [k \in 1..n |-> [id |-> k - 1, value |-> k]]

Heights == {2, 3}
ScrollOffsets == {0, 1}

\* adjustOffset(offset, cursor, itemCount, height, scrollOffset): the offset
\* moved by the least amount that keeps the cursor scrollOffset lines inside
\* the window, then kept within 0 .. itemCount - height.
adjustOffset(offset, cursor, itemCount, height, scrollOffset) ==
  LET moved ==
        IF cursor < offset + scrollOffset THEN cursor - scrollOffset
        ELSE IF cursor >= offset + height - scrollOffset
          THEN cursor - height + scrollOffset + 1
        ELSE offset
  IN Max(0, Min(Max(0, itemCount - height), moved))

NewRenderProcessor(height, scrollOffset) ==
  [height |-> height, scrollOffset |-> scrollOffset,
   aborted |-> FALSE,     \* #controller.signal.aborted
   processing |-> FALSE,  \* #processing is a promise
   reserved |-> <<>>,     \* #reserved: at most one pending start({items})
   items |-> <<>>, itemCount |-> 0, cursor |-> 0, offset |-> 0,
   pc |-> "idle",         \* "render": the run awaits the renderer
   displayItems |-> <<>>, \* the run's local displayItems
   chain |-> "none",      \* next handler of .catch().finally().then()
   err |-> "none",        \* how the run settled: none | null | error
   starts |-> 0]          \* history: start() calls of the caller of the stages

\* #adjustCursor(cursor)
RenderAdjustCursor(rp, cursor) ==
  [rp EXCEPT !.cursor = IF cursor < 0 THEN 0
                        ELSE IF cursor >= rp.itemCount THEN rp.itemCount - 1
                        ELSE cursor]

\* #adjustOffset()
RenderAdjustOffset(rp) ==
  [rp EXCEPT !.offset =
     adjustOffset(rp.offset, rp.cursor, rp.itemCount, rp.height, rp.scrollOffset)]

\* set cursor(cursor): dollar stands for the argument "$".
RenderSetCursor(rp, dollar, cursor) ==
  RenderAdjustOffset(
    RenderAdjustCursor(rp, IF dollar THEN rp.itemCount - 1 ELSE cursor))

\* items.slice(offset, offset + height).map(...): label defaults to the value.
RenderSlice(items, offset, height) ==
  LET first == Min(Max(offset, 0), Len(items))
      last == Min(Max(offset + height, 0), Len(items))
  IN [k \in 1..(IF last > first THEN last - first ELSE 0) |->
        [id |-> items[first + k].id, value |-> items[first + k].value,
         label |-> items[first + k].value]]

\* The synchronous part of the run that start() begins, up to the await.
RenderRun(rp, items) ==
  LET counted == [rp EXCEPT !.itemCount = Len(items)]
      placed == RenderAdjustOffset(RenderAdjustCursor(counted, counted.cursor))
  IN [placed EXCEPT
        !.processing = TRUE, !.pc = "render", !.err = "none",
        !.displayItems = RenderSlice(items, placed.offset, placed.height)]

\* Mutant of start(): a request that finds a run in progress is dropped.
RenderStartedDrop(rp, queue, items) ==
  IF rp.processing
    THEN [rp |-> rp, queue |-> queue]
    ELSE [rp |-> RenderRun(rp, items),
          queue |-> dispatch(queue, Event("render-processor-started", NoArg))]

\* start(denops, {items}) on a processor that is not disposed: the processor
\* and the event queue after the call.
RenderStarted(rp, queue, items) ==
  IF rp.processing
    THEN [rp |-> [rp EXCEPT !.reserved = <<items>>], queue |-> queue]
    ELSE [rp |-> RenderRun(rp, items),
          queue |-> dispatch(queue, Event("render-processor-started", NoArg))]

MaxMove == 2
MaxRenderRuns == 3

\* A caller starts the render processor on a list of items.
RenderStart ==
  /\ ~renderProcessor.aborted
  /\ CountEvents("render-processor-started") < MaxRenderRuns
  /\ \E n \in 0..MaxItems :
       LET r == RenderStarted(renderProcessor, eventQueue, ItemsUpTo(n))
       IN /\ renderProcessor' = r.rp
          /\ eventQueue' = r.queue
  /\ UNCHANGED notRender

\* The awaited renderer returns: the run publishes, or is rejected when its
\* signal is aborted.
RenderSettle ==
  /\ renderProcessor.pc = "render"
  /\ renderProcessor.chain = "none"
  /\ \/ /\ ~renderProcessor.aborted
        /\ renderProcessor' =
             [renderProcessor EXCEPT
                !.items = renderProcessor.displayItems,
                !.pc = "idle", !.chain = "catch", !.err = "none"]
        /\ eventQueue' =
             dispatch(eventQueue, Event("render-processor-succeeded", NoArg))
     \/ /\ renderProcessor.aborted
        /\ renderProcessor' =
             [renderProcessor EXCEPT
                !.pc = "idle", !.chain = "catch", !.err = "null"]
        /\ UNCHANGED eventQueue
  /\ UNCHANGED notRender

\* The awaited renderer throws.
RenderThrow ==
  /\ renderProcessor.pc = "render"
  /\ renderProcessor.chain = "none"
  /\ renderProcessor' =
       [renderProcessor EXCEPT !.pc = "idle", !.chain = "catch", !.err = "error"]
  /\ UNCHANGED <<eventQueue, notRender>>

\* .catch((err) => dispatch render-processor-failed)
RenderCatch ==
  /\ renderProcessor.chain = "catch"
  /\ renderProcessor' = [renderProcessor EXCEPT !.chain = "finally"]
  /\ eventQueue' =
       IF renderProcessor.err = "none" THEN eventQueue
       ELSE dispatch(eventQueue,
                     Event("render-processor-failed", renderProcessor.err))
  /\ UNCHANGED notRender

\* .finally(() => #processing = undefined)
RenderFinally ==
  /\ renderProcessor.chain = "finally"
  /\ renderProcessor' =
       [renderProcessor EXCEPT !.chain = "then", !.processing = FALSE]
  /\ UNCHANGED <<eventQueue, notRender>>

\* .then(() => { #reserved?.(); #reserved = undefined })
RenderThen ==
  /\ renderProcessor.chain = "then"
  /\ IF renderProcessor.reserved = <<>>
       THEN /\ renderProcessor' = [renderProcessor EXCEPT !.chain = "none"]
            /\ UNCHANGED eventQueue
     ELSE IF renderProcessor.aborted
       \* the reserved start() throws: the assignment is not reached
       THEN /\ renderProcessor' = [renderProcessor EXCEPT !.chain = "none"]
            /\ UNCHANGED eventQueue
     ELSE LET r == RenderStarted(renderProcessor, eventQueue,
                                 renderProcessor.reserved[1])
          IN /\ renderProcessor' =
                  [r.rp EXCEPT !.chain = "none", !.reserved = <<>>]
             /\ eventQueue' = r.queue
  /\ UNCHANGED notRender

\* Picker "move-cursor": renderProcessor.cursor += amount * amplifier.
RenderMoveCursor ==
  /\ \E move \in (0 - MaxMove)..MaxMove :
       /\ move # 0
       /\ renderProcessor' =
            RenderSetCursor(renderProcessor, FALSE, renderProcessor.cursor + move)
  /\ UNCHANGED <<eventQueue, notRender>>

\* Picker "move-cursor-at": renderProcessor.cursor = event.cursor.
RenderMoveCursorAt ==
  /\ \E dollar \in BOOLEAN, cursor \in 0..MaxItems :
       renderProcessor' = RenderSetCursor(renderProcessor, dollar, cursor)
  /\ UNCHANGED <<eventQueue, notRender>>

\* set height(height), from the layout of the list component.
RenderSetHeight ==
  /\ \E height \in Heights :
       renderProcessor' =
         RenderAdjustOffset([renderProcessor EXCEPT !.height = height])
  /\ UNCHANGED <<eventQueue, notRender>>

\* RenderProcessor[Symbol.asyncDispose](): abort(null).
RenderDispose ==
  /\ ~renderProcessor.aborted
  /\ renderProcessor' = [renderProcessor EXCEPT !.aborted = TRUE]
  /\ UNCHANGED <<eventQueue, notRender>>

InitRenderIdle == renderProcessor = NewRenderProcessor(2, 0)
InitRender ==
  renderProcessor \in
    {NewRenderProcessor(h, so) : h \in Heights, so \in ScrollOffsets}

\* ================================================================= match
\* Queries are coded by their length: 0 is "", 1 is "a".
Queries == {0, 1}
\* The matchers given to the picker.  Each keeps the order of the items and
\* keeps every item for the empty query; for "a" the two matchers keep
\* different items.
Matchers == {0, 1}
Matches(m, v, q) ==
  \/ q = 0
  \/ q = 1 /\ v % 2 = m

\* Index of the first item after position pos the matcher yields, 0 if none.
\* take(..., #threshold) lets every item through: the threshold (100000
\* unless the option is given) exceeds the length of the lists here.
NextMatch(m, items, q, pos) ==
  LET later == {k \in (pos + 1)..Len(items) : Matches(m, items[k].value, q)}
  IN IF later = {} THEN 0 ELSE CHOOSE k \in later : \A j \in later : k <= j

\* Everything the matcher m yields for query q over items.
RECURSIVE MatchFrom(_, _, _, _)
MatchFrom(m, items, q, pos) ==
  LET k == NextMatch(m, items, q, pos)
  IN IF k = 0 THEN <<>> ELSE <<items[k]>> \o MatchFrom(m, items, q, k)
MatchAll(m, items, q) == MatchFrom(m, items, q, 0)

\* ItemBelt index setter: clamps into 0 .. count - 1.
BeltIndex(count, index) ==
  IF index >= count THEN count - 1 ELSE IF index < 0 THEN 0 ELSE index

\* new MatchProcessor(matchers, {incremental}); a query is held as <<q>>,
\* undefined as <<>>.
NewMatchProcessor(incremental) ==
  [matcherIndex |-> 0,
   incremental |-> incremental,
   aborted |-> FALSE,      \* the signal of #controller is aborted
   processing |-> FALSE,   \* #processing is a promise
   reserved |-> <<>>,      \* #reserved: at most one [query, restart]
   items |-> <<>>,         \* #items
   previousQuery |-> <<>>, \* #previousQuery
   pc |-> "idle",          \* the run awaits: "iter" the matcher, "delay"
   signalAborted |-> FALSE,\* the signal the run holds is aborted
   matcher |-> 0,          \* the matcher, items and query of the run
   input |-> <<>>,
   query |-> 0,
   pos |-> 0,              \* how far the matcher has read its input
   matchedItems |-> <<>>,  \* the run's local matchedItems
   chunker |-> <<>>,       \* the run's Chunker
   chain |-> "none",       \* next handler of .catch().finally().then()
   err |-> "none",         \* how the run settled: none | null | error
   given |-> <<>>,         \* history: the input of the run that set #items
   invoked |-> 0,          \* history: calls of Matcher.match
   starts |-> 0]           \* history: start() calls of the caller

\* set matcherIndex(index): dollar stands for "$".
MatchSetMatcherIndex(mp, dollar, index) ==
  [mp EXCEPT !.matcherIndex =
     BeltIndex(Cardinality(Matchers),
               IF dollar THEN Cardinality(Matchers) ELSE index)]

\* The run that start() begins, up to the first await of the matcher.
MatchRun(mp, items, query) ==
  [mp EXCEPT
     !.processing = TRUE, !.previousQuery = <<query>>, !.pc = "iter",
     !.signalAborted = FALSE, !.matcher = mp.matcherIndex, !.input = items,
     !.query = query, !.pos = 0, !.matchedItems = <<>>, !.chunker = <<>>,
     !.err = "none", !.invoked = @ + 1]

\* Mutant of start(): the query is not compared with #previousQuery.
MatchStartedAlways(mp, queue, items, query, restart) ==
  IF mp.processing
    THEN [mp |-> [mp EXCEPT
                    !.reserved = <<[query |-> query, restart |-> restart]>>,
                    !.signalAborted = @ \/ restart],
          queue |-> queue]
    ELSE [mp |-> MatchRun(mp, items, query),
          queue |-> dispatch(queue, Event("match-processor-started", NoArg))]

\* start(denops, {items, query}, {restart}): the processor and the event
\* queue after the call.  Every caller passes the array of the collect
\* processor, so a reserved start keeps the query and the restart option and
\* finds the items in that array when it is called; the matcher reads the
\* array as it is when the run begins.
MatchStarted(mp, queue, items, query, restart) ==
  IF <<query>> = mp.previousQuery
    THEN [mp |-> mp,
          queue |-> IF mp.processing THEN queue
                    ELSE dispatch(queue,
                                  Event("match-processor-succeeded", NoArg))]
  ELSE IF mp.processing
    THEN [mp |-> [mp EXCEPT
                    !.reserved = <<[query |-> query, restart |-> restart]>>,
                    !.signalAborted = @ \/ restart],
          queue |-> queue]
    ELSE [mp |-> MatchRun(mp, items, query),
          queue |-> dispatch(queue, Event("match-processor-started", NoArg))]

\* The run is rejected with err.
MatchReject(err) ==
  /\ matchProcessor' =
       [matchProcessor EXCEPT !.pc = "idle", !.chain = "catch", !.err = err]
  /\ UNCHANGED eventQueue

\* update(chunk) of MatchProcessor.start.
MatchUpdate(mp, chunk) ==
  LET all == mp.matchedItems \o chunk
  IN [mp EXCEPT !.matchedItems = all, !.chunker = <<>>,
                !.items = IF mp.incremental THEN all ELSE @,
                !.given = IF mp.incremental THEN mp.input ELSE @]

\* The run's await of the matcher's next item settles.
MatchNext ==
  /\ matchProcessor.pc = "iter"
  /\ matchProcessor.chain = "none"
  /\ LET mp == matchProcessor
         k == NextMatch(mp.matcher, mp.input, mp.query, mp.pos)
     IN \/ \* the matcher yields its next item
           /\ k # 0
           /\ IF mp.signalAborted
                THEN MatchReject("null")
                ELSE \E elapsed \in BOOLEAN :
                  LET chunk == ChunkerPut(mp.chunker, mp.input[k])
                      read == [mp EXCEPT !.pos = k]
                  IN IF ChunkerFull(chunk, ChunkSize) \/ elapsed
                       THEN /\ matchProcessor' =
                                 [MatchUpdate(read, chunk) EXCEPT !.pc = "delay"]
                            /\ eventQueue' =
                                 IF mp.incremental
                                   THEN dispatch(eventQueue,
                                          Event("match-processor-updated", NoArg))
                                   ELSE eventQueue
                       ELSE /\ matchProcessor' = [read EXCEPT !.chunker = chunk]
                            /\ UNCHANGED eventQueue
        \/ \* the matcher is done: flush, publish, dispatch succeeded
           /\ k = 0
           /\ LET flushed == IF Len(mp.chunker) > 0
                               THEN MatchUpdate(mp, mp.chunker) ELSE mp
              IN /\ matchProcessor' =
                      [flushed EXCEPT !.items = flushed.matchedItems,
                                      !.given = mp.input,
                                      !.pc = "idle", !.chain = "catch",
                                      !.err = "none"]
                 /\ eventQueue' =
                      dispatchAll(eventQueue,
                        (IF Len(mp.chunker) > 0 /\ mp.incremental
                           THEN <<Event("match-processor-updated", NoArg)>>
                           ELSE <<>>)
                        \o <<Event("match-processor-succeeded", NoArg)>>)
        \/ \* the matcher sees its signal aborted and throws the reason
           /\ mp.signalAborted
           /\ MatchReject("null")
  /\ UNCHANGED notMatch

\* The run's await of the matcher's next item is rejected: the matcher throws.
MatchThrow ==
  /\ matchProcessor.pc = "iter"
  /\ matchProcessor.chain = "none"
  /\ MatchReject("error")
  /\ UNCHANGED notMatch

\* await delay(interval, {signal}) between chunks.
MatchDelay ==
  /\ matchProcessor.pc = "delay"
  /\ NoMicrotask
  /\ IF matchProcessor.signalAborted
       THEN MatchReject("null")
       ELSE /\ matchProcessor' = [matchProcessor EXCEPT !.pc = "iter"]
            /\ UNCHANGED eventQueue
  /\ UNCHANGED notMatch

\* .catch((err) => dispatch match-processor-failed)
MatchCatch ==
  /\ matchProcessor.chain = "catch"
  /\ matchProcessor' = [matchProcessor EXCEPT !.chain = "finally"]
  /\ eventQueue' =
       IF matchProcessor.err = "none" THEN eventQueue
       ELSE dispatch(eventQueue,
                     Event("match-processor-failed", matchProcessor.err))
  /\ UNCHANGED notMatch

\* .finally(() => #processing = undefined)
MatchFinally ==
  /\ matchProcessor.chain = "finally"
  /\ matchProcessor' =
       [matchProcessor EXCEPT !.chain = "then", !.processing = FALSE]
  /\ UNCHANGED <<eventQueue, notMatch>>

\* .then(() => { #reserved?.(); #reserved = undefined })
MatchThen ==
  /\ matchProcessor.chain = "then"
  /\ IF matchProcessor.reserved = <<>>
       THEN /\ matchProcessor' = [matchProcessor EXCEPT !.chain = "none"]
            /\ UNCHANGED eventQueue
     ELSE IF matchProcessor.aborted
       \* the reserved start() throws: the assignment is not reached
       THEN /\ matchProcessor' = [matchProcessor EXCEPT !.chain = "none"]
            /\ UNCHANGED eventQueue
       ELSE LET res == matchProcessor.reserved[1]
                r == MatchStarted(matchProcessor, eventQueue,
                                  collectProcessor.list.items,
                                  res.query, res.restart)
            IN /\ matchProcessor' =
                    [r.mp EXCEPT !.chain = "none", !.reserved = <<>>]
               /\ eventQueue' = r.queue
  /\ UNCHANGED notMatch

\* --- the match processor called directly
\* start() calls of the caller in a behaviour.
MaxStart == 3

\* A caller starts the match processor on MaxItems items.
MatchStartWith(query, restart) ==
  /\ ~matchProcessor.aborted
  /\ NoMicrotask
  /\ matchProcessor.starts < MaxStart
  /\ LET r == MatchStarted(matchProcessor, eventQueue, ItemsUpTo(MaxItems),
                           query, restart)
     IN /\ matchProcessor' = [r.mp EXCEPT !.starts = @ + 1]
        /\ eventQueue' = r.queue
  /\ UNCHANGED notMatch
MatchStart == \E query \in Queries, restart \in BOOLEAN :
                MatchStartWith(query, restart)

\* A caller sets matcherIndex.
MatchSwitch ==
  /\ NoMicrotask
  /\ \E dollar \in BOOLEAN, index \in Matchers :
       /\ dollar => index = 0
       /\ matchProcessor' = MatchSetMatcherIndex(matchProcessor, dollar, index)
       /\ matchProcessor' # matchProcessor
  /\ UNCHANGED <<eventQueue, notMatch>>

\* MatchProcessor[Symbol.dispose](): abort(null) on the current controller;
\* the signal of a run in progress is that one or is aborted already.
MatchDispose ==
  /\ ~matchProcessor.aborted
  /\ NoMicrotask
  /\ matchProcessor' =
       [matchProcessor EXCEPT
          !.aborted = TRUE, !.signalAborted = TRUE]
  /\ UNCHANGED <<eventQueue, notMatch>>

\* ================================================================== sort
\* The sorter given to the picker orders items by descending value.
RECURSIVE SortDesc(_)
SortDesc(items) ==
  IF items = <<>> THEN <<>>
  ELSE LET k == CHOOSE k \in 1..Len(items) :
                  \A j \in 1..Len(items) : items[k].value >= items[j].value
       IN <<items[k]>> \o
          SortDesc([j \in 1..(Len(items) - 1) |->
                      IF j < k THEN items[j] ELSE items[j + 1]])

\* new SortProcessor(sorters): hasSorter is FALSE when sorters is empty.
NewSortProcessorWith(hasSorter) ==
  [hasSorter |-> hasSorter,
   aborted |-> FALSE,  \* #controller.signal.aborted
   processing |-> FALSE, reserved |-> <<>>, items |-> <<>>,
   pc |-> "idle",      \* "sort": the run awaits the sorter
   cloned |-> <<>>,    \* the run's local cloned
   given |-> <<>>,     \* the array the run was given, as it reads now
   input |-> <<>>,     \* history: that array as it read at the call
   chain |-> "none", err |-> "none",
   starts |-> 0]       \* history: start() calls of the caller of the stages
NewSortProcessor == NewSortProcessorWith(TRUE)

\* start() without the test of #processing.
SortStartedAlways(sp, queue, items) ==
  [sp |-> [sp EXCEPT !.processing = TRUE, !.pc = "sort",
                     !.cloned = items, !.given = items, !.input = items,
                     !.err = "none"],
   queue |-> dispatch(queue, Event("sort-processor-started", NoArg))]

\* start(denops, {items}) on a processor that is not disposed: the processor
\* and the event queue after the call.  The run takes cloned = items.slice().
SortStarted(sp, queue, items) ==
  IF sp.processing
    THEN [sp |-> [sp EXCEPT !.reserved = <<items>>], queue |-> queue]
    ELSE [sp |-> [sp EXCEPT !.processing = TRUE, !.pc = "sort",
                            !.cloned = items, !.given = items, !.input = items,
                            !.err = "none"],
          queue |-> dispatch(queue, Event("sort-processor-started", NoArg))]

\* The sorter called on the array it was given instead of on a copy.
SorterSortInPlace(sp) ==
  LET sorted == IF sp.hasSorter THEN SortDesc(sp.given) ELSE sp.given
  IN [cloned |-> sorted, given |-> sorted]

\* await this.#sorter?.sort(denops, {items: cloned}): the sorter orders
\* cloned in place; the array the run was given is another array.
SorterSort(sp) ==
  [cloned |-> IF sp.hasSorter THEN SortDesc(sp.cloned) ELSE sp.cloned,
   given |-> sp.given]

\* The awaited sorter returns: the run publishes the sorted clone, or is
\* rejected when its signal is aborted.
SortSettle ==
  /\ sortProcessor.pc = "sort"
  /\ sortProcessor.chain = "none"
  /\ LET sorted == SorterSort(sortProcessor)
     IN IF sortProcessor.aborted
          THEN /\ sortProcessor' =
                    [sortProcessor EXCEPT
                       !.cloned = sorted.cloned, !.given = sorted.given,
                       !.pc = "idle", !.chain = "catch", !.err = "null"]
               /\ UNCHANGED eventQueue
          ELSE /\ sortProcessor' =
                    [sortProcessor EXCEPT
                       !.cloned = sorted.cloned, !.given = sorted.given,
                       !.items = sorted.cloned,
                       !.pc = "idle", !.chain = "catch", !.err = "none"]
               /\ eventQueue' =
                    dispatch(eventQueue,
                             Event("sort-processor-succeeded", NoArg))
  /\ UNCHANGED notSort

\* The awaited sorter throws, after it has ordered cloned or before.
SortThrow ==
  /\ sortProcessor.pc = "sort"
  /\ sortProcessor.chain = "none"
  /\ sortProcessor.hasSorter
  /\ \E sorted \in {SorterSort(sortProcessor),
                     [cloned |-> sortProcessor.cloned,
                      given |-> sortProcessor.given]} :
       sortProcessor' =
         [sortProcessor EXCEPT
            !.cloned = sorted.cloned, !.given = sorted.given,
            !.pc = "idle", !.chain = "catch", !.err = "error"]
  /\ UNCHANGED <<eventQueue, notSort>>

\* .catch((err) => dispatch sort-processor-failed)
SortCatch ==
  /\ sortProcessor.chain = "catch"
  /\ sortProcessor' = [sortProcessor EXCEPT !.chain = "finally"]
  /\ eventQueue' =
       IF sortProcessor.err = "none" THEN eventQueue
       ELSE dispatch(eventQueue,
                     Event("sort-processor-failed", sortProcessor.err))
  /\ UNCHANGED notSort

\* .finally(() => #processing = undefined)
SortFinally ==
  /\ sortProcessor.chain = "finally"
  /\ sortProcessor' =
       [sortProcessor EXCEPT !.chain = "then", !.processing = FALSE]
  /\ UNCHANGED <<eventQueue, notSort>>

\* .then(() => { #reserved?.(); #reserved = undefined })
SortThen ==
  /\ sortProcessor.chain = "then"
  /\ IF sortProcessor.reserved = <<>>
       THEN /\ sortProcessor' = [sortProcessor EXCEPT !.chain = "none"]
            /\ UNCHANGED eventQueue
     ELSE IF sortProcessor.aborted
       \* the reserved start() throws: the assignment is not reached
       THEN /\ sortProcessor' = [sortProcessor EXCEPT !.chain = "none"]
            /\ UNCHANGED eventQueue
       ELSE LET r == SortStarted(sortProcessor, eventQueue,
                                 sortProcessor.reserved[1])
            IN /\ sortProcessor' =
                    [r.sp EXCEPT !.chain = "none", !.reserved = <<>>]
               /\ eventQueue' = r.queue
  /\ UNCHANGED notSort

\* SortProcessor[Symbol.dispose](): abort(null).
SortDispose ==
  /\ ~sortProcessor.aborted
  /\ sortProcessor' = [sortProcessor EXCEPT !.aborted = TRUE]
  /\ UNCHANGED <<eventQueue, notSort>>

\* =============================================================== preview
\* Items are previewed as themselves; <<>> is undefined.
NewPreviewProcessor ==
  [aborted |-> FALSE,    \* #controller.signal.aborted
   processing |-> FALSE, \* #processing is a promise
   reserved |-> <<>>,    \* #reserved: at most one pending start({item})
   item |-> <<>>,        \* #item
   pc |-> "idle",        \* "preview": the run awaits the previewer
   arg |-> <<>>,         \* the item of the run
   chain |-> "none", err |-> "none",
   starts |-> 0]         \* history: start() calls of the caller of the stages

\* start(denops, {item}) on a processor that is not disposed; without an
\* item the run publishes undefined and succeeds before start() returns.
PreviewStarted(pp, queue, item) ==
  IF pp.processing
    THEN [pp |-> [pp EXCEPT !.reserved = <<item>>], queue |-> queue]
  ELSE IF item = <<>>
    THEN [pp |-> [pp EXCEPT !.processing = TRUE, !.item = <<>>,
                            !.arg = <<>>, !.chain = "catch", !.err = "none"],
          queue |-> dispatchAll(queue,
                      <<Event("preview-processor-started", NoArg),
                        Event("preview-processor-succeeded", NoArg)>>)]
    ELSE [pp |-> [pp EXCEPT !.processing = TRUE, !.pc = "preview",
                            !.arg = item, !.err = "none"],
          queue |-> dispatch(queue, Event("preview-processor-started", NoArg))]

\* The awaited previewer returns a preview or nothing: the run publishes it,
\* or is rejected when its signal is aborted.
PreviewSettle ==
  /\ previewProcessor.pc = "preview"
  /\ previewProcessor.chain = "none"
  /\ IF previewProcessor.aborted
       THEN /\ previewProcessor' =
                 [previewProcessor EXCEPT
                    !.pc = "idle", !.chain = "catch", !.err = "null"]
            /\ UNCHANGED eventQueue
       ELSE /\ \E previewItem \in {<<>>, previewProcessor.arg} :
                 previewProcessor' =
                   [previewProcessor EXCEPT
                      !.item = previewItem,
                      !.pc = "idle", !.chain = "catch", !.err = "none"]
            /\ eventQueue' =
                 dispatch(eventQueue,
                          Event("preview-processor-succeeded", NoArg))
  /\ UNCHANGED notPreview

\* The awaited previewer throws.
PreviewThrow ==
  /\ previewProcessor.pc = "preview"
  /\ previewProcessor.chain = "none"
  /\ previewProcessor' =
       [previewProcessor EXCEPT
          !.pc = "idle", !.chain = "catch", !.err = "error"]
  /\ UNCHANGED <<eventQueue, notPreview>>

\* .catch((err) => dispatch preview-processor-failed)
PreviewCatch ==
  /\ previewProcessor.chain = "catch"
  /\ previewProcessor' = [previewProcessor EXCEPT !.chain = "finally"]
  /\ eventQueue' =
       IF previewProcessor.err = "none" THEN eventQueue
       ELSE dispatch(eventQueue,
                     Event("preview-processor-failed", previewProcessor.err))
  /\ UNCHANGED notPreview

\* .finally(() => #processing = undefined)
PreviewFinally ==
  /\ previewProcessor.chain = "finally"
  /\ previewProcessor' =
       [previewProcessor EXCEPT !.chain = "then", !.processing = FALSE]
  /\ UNCHANGED <<eventQueue, notPreview>>

\* .then(() => { #reserved?.(); #reserved = undefined })
PreviewThen ==
  /\ previewProcessor.chain = "then"
  /\ IF previewProcessor.reserved = <<>>
       THEN /\ previewProcessor' = [previewProcessor EXCEPT !.chain = "none"]
            /\ UNCHANGED eventQueue
     ELSE IF previewProcessor.aborted
       \* the reserved start() throws: the assignment is not reached
       THEN /\ previewProcessor' = [previewProcessor EXCEPT !.chain = "none"]
            /\ UNCHANGED eventQueue
       ELSE LET r == PreviewStarted(previewProcessor, eventQueue,
                                    previewProcessor.reserved[1])
            IN /\ previewProcessor' =
                    [r.pp EXCEPT !.chain = "none", !.reserved = <<>>]
               /\ eventQueue' = r.queue
  /\ UNCHANGED notPreview

\* ---------------------------------------- the stages called directly
\* start() calls a caller makes in a behaviour; the four processors share
\* no state, and a behaviour exercises one of them.
MaxStageStarts == 3
StageStarts ==
  matchProcessor.starts + sortProcessor.starts + renderProcessor.starts
    + previewProcessor.starts
\* The caller may start the processor p: every start so far was p's.
StageOf(p) == p.starts = StageStarts /\ StageStarts < MaxStageStarts

\* A caller starts the match processor.
StageMatchStart ==
  /\ StageOf(matchProcessor)
  /\ MatchStart

\* A caller starts the sort processor on a list of items.
StageSortStart ==
  /\ StageOf(sortProcessor)
  /\ ~sortProcessor.aborted
  /\ \E n \in 0..MaxItems :
       LET r == SortStarted(sortProcessor, eventQueue, ItemsUpTo(n))
       IN /\ sortProcessor' = [r.sp EXCEPT !.starts = @ + 1]
          /\ eventQueue' = r.queue
  /\ UNCHANGED notSort

\* A caller starts the render processor on a list of items.
StageRenderStart ==
  /\ StageOf(renderProcessor)
  /\ ~renderProcessor.aborted
  /\ \E n \in 0..MaxItems :
       LET r == RenderStarted(renderProcessor, eventQueue, ItemsUpTo(n))
       IN /\ renderProcessor' = [r.rp EXCEPT !.starts = @ + 1]
          /\ eventQueue' = r.queue
  /\ UNCHANGED notRender

\* A caller starts the preview processor on an item or on undefined.
StagePreviewStart ==
  /\ StageOf(previewProcessor)
  /\ ~previewProcessor.aborted
  /\ \E item \in {<<>>, <<1>>, <<2>>} :
       LET r == PreviewStarted(previewProcessor, eventQueue, item)
       IN /\ previewProcessor' = [r.pp EXCEPT !.starts = @ + 1]
          /\ eventQueue' = r.queue
  /\ UNCHANGED notPreview

\* ============================================================== debounce
\* The delay given to debounce(), calls of the debounced function and the
\* time a behaviour runs for.
DebounceDelay == 2
MaxCalls == 3
MaxTime == 7

\* debounce(fn, {delay, signal}) at the time 0: no timer is set and the abort
\* listener is registered.  timers are the timers setTimeout has set and
\* that have neither fired nor been cleared; calls, invoked and signal.at /
\* signal.nCalls are history.
NewDebounce ==
  [timerId |-> 0,        \* let timerId; 0 is undefined
   timers |-> {},        \* [id, at, args]: fires at the time at
   nTimers |-> 0,        \* the ids setTimeout has handed out
   now |-> 0,
   signal |-> [aborted |-> FALSE, at |-> 0, nCalls |-> 0],
   fn |-> "spy",         \* fn: a test's spy, or "reserve" of Picker.start
   calls |-> <<>>,       \* history: [at, args] of every call
   invoked |-> <<>>]     \* history: [at, args] of every fn(...args)

\* const reserve = (callback) => { reservedCallbacks.push(callback) } of
\* Picker.start, on the picker p.
reserve(p, callback) ==
  [p EXCEPT !.reservedCallbacks = Append(@, callback),
            !.history = IF @.on THEN [@ EXCEPT !.reserved = Append(@, callback)]
                        ELSE @]

\* The abort closure without clearTimeout.
abortKeepsTimer(d) == [d EXCEPT !.timerId = 0]

\* const abort = () => {...}: the timer timerId names is cleared.
abort(d) ==
  IF d.timerId # 0
    THEN [d EXCEPT !.timers = {t \in @ : t.id # d.timerId}, !.timerId = 0]
  ELSE d

\* The function debounce returns, called with args: abort(), then setTimeout.
DebouncedCall(d, args) ==
  LET a == abort(d)
      id == a.nTimers + 1
  IN [a EXCEPT !.nTimers = id,
               !.timerId = id,
               !.timers = @ \cup {[id |-> id, at |-> a.now + DebounceDelay,
                                   args |-> args]},
               !.calls = Append(@, [at |-> a.now, args |-> args])]

\* A call of the debounced function; the arguments are the serial number of
\* the call.
DebounceCall ==
  /\ Len(debounced.calls) < MaxCalls
  /\ debounced' = DebouncedCall(debounced, Len(debounced.calls) + 1)
  /\ UNCHANGED notDebounce

\* A timer is due: timerId = undefined; fn(...args).
DebounceTimer ==
  /\ NoMicrotask
  /\ \E t \in debounced.timers :
       /\ t.at <= debounced.now
       /\ debounced' =
            [debounced EXCEPT
               !.timers = @ \ {t},
               !.timerId = 0,
               !.invoked = Append(@, [at |-> debounced.now, args |-> t.args])]
       /\ picker' = IF debounced.fn = "reserve" THEN reserve(picker, t.args)
                    ELSE picker
  /\ UNCHANGED <<eventQueue, consumer, delivered, nDispatched,
                 dispatchedDuring, source, collectProcessor, renderProcessor,
                 matchProcessor, sortProcessor, sessions, main,
                 previewProcessor>>

\* controller.abort(): the listener, registered once, runs abort().
DebounceSignalAbort ==
  /\ ~debounced.signal.aborted
  /\ debounced' =
       [abort(debounced) EXCEPT
          !.signal = [aborted |-> TRUE, at |-> debounced.now,
                      nCalls |-> Len(debounced.calls)]]
  /\ UNCHANGED notDebounce

\* A millisecond passes; a timer that is due fires before the next one does.
DebounceTimePasses ==
  /\ NoMicrotask
  /\ debounced.now < MaxTime
  /\ \A t \in debounced.timers : debounced.now < t.at
  /\ debounced' = [debounced EXCEPT !.now = @ + 1]
  /\ UNCHANGED notDebounce

\* The time passes until the timer that is pending is due: nothing but the
\* timers reads the time.
DebounceDelayPasses ==
  /\ NoMicrotask
  /\ \E t \in debounced.timers :
       /\ debounced.now < t.at
       /\ debounced' = [debounced EXCEPT !.now = t.at]
  /\ UNCHANGED notDebounce

\* ================================================================ picker
\* Changes of the command line and switch-matcher(-at) events of a behaviour.
MaxInput == 2
MaxSwitch == 1
\* select-item and select-all-items events of a behaviour.
MaxSelect == 1
\* action-invoke events of a behaviour.
MaxInvoke == 1

Callback(kind, query, restart) ==
  [kind |-> kind, query |-> query, restart |-> restart]

\* The picker once it is constructed and opened, before start().
NewPicker ==
  [cmdline |-> 0,            \* inputComponent.cmdline
   collecting |-> "false",   \* inputComponent.collecting
   processing |-> "false",   \* inputComponent.processing
   listItems |-> <<>>,       \* listComponent.items
   reservedCallbacks |-> <<>>,
   pc |-> "idle",            \* "callbacks": the tick awaits its callbacks
   observed |-> 0,           \* cmdliner.cmdline: the last observed value
   selection |-> {},         \* #selection: a set of item ids
   action |-> <<>>,          \* start: let action (<<>> for undefined)
   accepting |-> {},         \* accept(name) calls that await Cmdliner.accept
   accepted |-> {},          \* ... whose Cmdliner.accept call has completed
   inputDone |-> <<>>,       \* <<name>>: the accept that ended cmdliner.input
   result |-> <<>>,          \* <<result>> once start has returned
   nInvoke |-> 0,            \* history: action-invoke events dispatched
   nInput |-> 0,             \* history: cmdline events dispatched
   nSwitch |-> 0,            \* history: switch events dispatched
   nSelect |-> 0,            \* history: select events dispatched
   nStale |-> 0,             \* history: events of disposed pickers
   nPreview |-> 0,           \* history: switch-previewer events dispatched
   history |->               \* history, kept where on is set: the callbacks
     [on |-> FALSE,          \* reserved and the callbacks run, each in order
      reserved |-> <<>>, ran |-> <<>>]]

\* reserve(callback)
Reserve(st, cb) == [st EXCEPT !.picker = reserve(st.picker, cb)]

\* reservePreviewDebounced(callback)
ReservePreviewDebounced(st, cb) ==
  [st EXCEPT !.db = DebouncedCall(st.db, cb)]

\* Array.prototype.at(index): <<element>>, or <<>> for undefined; a negative
\* index counts back from the end.
ArrayAt(s, index) ==
  LET i == IF index < 0 THEN Len(s) + index ELSE index
  IN IF i >= 0 /\ i < Len(s) THEN <<s[i + 1]>> ELSE <<>>

Methods == {"on", "off", "toggle"}
\* The cursor argument of select-item: undefined, "$" or a number.
NoCursor == [kind |-> "none", at |-> 0]
DollarCursor == [kind |-> "dollar", at |-> 0]
CursorAt(n) == [kind |-> "at", at |-> n]

\* #select without the test of the item found: the id becomes the index.
PickerSelectByIndex(selection, items, rpCursor, cursor, method) ==
  LET index == IF cursor.kind = "dollar" THEN Len(items) - 1
               ELSE IF cursor.kind = "none" THEN rpCursor
               ELSE cursor.at
  IN IF method = "off" THEN selection \ {index} ELSE selection \cup {index}

\* Picker.#select(cursor, method) over matchProcessor.items, with the
\* render processor's cursor for an undefined cursor.
PickerSelect(selection, items, rpCursor, cursor, method) ==
  LET index == IF cursor.kind = "dollar" THEN Len(items) - 1
               ELSE IF cursor.kind = "none" THEN rpCursor
               ELSE cursor.at
      item == ArrayAt(items, index)
  IN IF item = <<>> THEN selection
     ELSE LET id == item[1].id
          IN CASE method = "on" -> selection \cup {id}
               [] method = "off" -> selection \ {id}
               [] method = "toggle" ->
                    IF id \in selection THEN selection \ {id}
                    ELSE selection \cup {id}

\* Picker.#selectAll(method) over matchProcessor.items.
PickerSelectAll(selection, items, method) ==
  LET ids == {items[i].id : i \in 1..Len(items)}
  IN CASE method = "on" -> ids
       [] method = "off" -> {}
       [] method = "toggle" -> (selection \ ids) \cup (ids \ selection)

\* Picker.#handleEvent(event) on st = [picker, mp, rp, db] (the picker, its
\* match processor, its render processor and reservePreviewDebounced).  The
\* previewer index that switch-previewer(-at) sets is not modelled.
HandleEvent(st, event) ==
  CASE event.type = "vim-cmdline-changed" ->
         Reserve([st EXCEPT !.picker.cmdline = event.arg],
                 Callback("match", event.arg, TRUE))
    [] event.type = "move-cursor" ->
         Reserve([st EXCEPT !.rp =
                    RenderSetCursor(st.rp, FALSE, st.rp.cursor + event.arg)],
                 Callback("render-matched", 0, FALSE))
    [] event.type = "move-cursor-at" ->
         Reserve([st EXCEPT !.rp =
                    RenderSetCursor(st.rp, event.arg.dollar, event.arg.cursor)],
                 Callback("render-matched", 0, FALSE))
    [] event.type = "select-item" ->
         [st EXCEPT !.picker.selection =
            PickerSelect(@, st.mp.items, st.rp.cursor,
                         event.arg.cursor, event.arg.method)]
    [] event.type = "select-all-items" ->
         [st EXCEPT !.picker.selection =
            PickerSelectAll(@, st.mp.items, event.arg.method)]
    [] event.type \in {"switch-sorter", "switch-sorter-at"} ->
         Reserve(st, Callback("sort", 0, FALSE))
    [] event.type \in {"switch-renderer", "switch-renderer-at"} ->
         Reserve(st, Callback("render-sorted", 0, FALSE))
    [] event.type \in {"switch-previewer", "switch-previewer-at"} ->
         ReservePreviewDebounced(st, Callback("preview", 0, FALSE))
    [] event.type = "action-invoke" ->
         [st EXCEPT !.picker.accepting = @ \cup {event.arg}]
    [] event.type = "switch-matcher" ->
         LET moved == st.mp.matcherIndex + event.arg.amount
             index == IF event.arg.cycle
                        THEN IF moved < 0 THEN Cardinality(Matchers) - 1
                             ELSE IF moved >= Cardinality(Matchers) THEN 0
                             ELSE moved
                        ELSE moved
         IN Reserve([st EXCEPT !.mp = MatchSetMatcherIndex(st.mp, FALSE, index)],
                    Callback("match-cmdline", 0, TRUE))
    [] event.type = "switch-matcher-at" ->
         Reserve([st EXCEPT !.mp =
                    MatchSetMatcherIndex(st.mp, event.arg.dollar, event.arg.index)],
                 Callback("match-cmdline", 0, TRUE))
    [] event.type = "collect-processor-started" ->
         [st EXCEPT !.picker.collecting = "true"]
    [] event.type = "collect-processor-updated" ->
         Reserve(st, Callback("match-cmdline", 0, FALSE))
    [] event.type = "collect-processor-succeeded" ->
         Reserve([st EXCEPT !.picker.collecting = "false"],
                 Callback("match-cmdline", 0, FALSE))
    [] event.type = "collect-processor-failed" ->
         IF event.arg = "null" THEN st
         ELSE [st EXCEPT !.picker.collecting = "failed"]
    [] event.type = "match-processor-started" ->
         [st EXCEPT !.picker.processing = "true"]
    [] event.type = "match-processor-updated" ->
         Reserve(st, Callback("sort", 0, FALSE))
    [] event.type = "match-processor-succeeded" ->
         Reserve([st EXCEPT !.picker.processing = "false"],
                 Callback("sort", 0, FALSE))
    [] event.type = "match-processor-failed" ->
         IF event.arg = "null" THEN st
         ELSE [st EXCEPT !.picker.processing = "failed"]
    [] event.type = "sort-processor-succeeded" ->
         Reserve(st, Callback("render-sorted", 0, FALSE))
    [] event.type = "sort-processor-failed" ->
         LET failed == [st EXCEPT !.picker.processing = "failed"]
         IN IF event.arg = "null" THEN failed
            ELSE Reserve(failed, Callback("render-matched", 0, FALSE))
    [] event.type = "render-processor-succeeded" ->
         ReservePreviewDebounced(
           [st EXCEPT !.picker.listItems = st.rp.items],
           Callback("preview", 0, FALSE))
    [] event.type = "render-processor-failed" ->
         [st EXCEPT !.picker.processing = "failed"]
    [] event.type = "preview-processor-failed" ->
         [st EXCEPT !.picker.processing = "failed"]
    [] OTHER -> st

\* consume((event) => this.#handleEvent(event, ...)) over the events taken
\* from the queue.
RECURSIVE HandleEvents(_, _)
HandleEvents(st, events) ==
  IF events = <<>> THEN st
  ELSE HandleEvents(HandleEvent(st, Head(events)), Tail(events))

\* callback(denops, {signal}) for a reserved callback, on
\* w = [picker, mp, sp, rp, pp, queue].
RunCallback(w, cb) ==
  CASE cb.kind \in {"match", "match-cmdline"} ->
         LET r == MatchStarted(w.mp, w.queue, collectProcessor.list.items,
                               IF cb.kind = "match" THEN cb.query
                               ELSE w.picker.cmdline,
                               cb.restart)
         IN [w EXCEPT !.mp = r.mp, !.queue = r.queue]
    [] cb.kind = "sort" ->
         LET r == SortStarted(w.sp, w.queue, w.mp.items)
         IN [w EXCEPT !.sp = r.sp, !.queue = r.queue]
    [] cb.kind \in {"render-sorted", "render-matched"} ->
         LET r == RenderStarted(w.rp, w.queue,
                                IF cb.kind = "render-sorted"
                                  THEN w.sp.items ELSE w.mp.items)
         IN [w EXCEPT !.rp = r.rp, !.queue = r.queue]
    [] cb.kind = "preview" ->
         LET r == PreviewStarted(w.pp, w.queue,
                                 ArrayAt(w.mp.items, w.rp.cursor))
         IN [w EXCEPT !.pp = r.pp, !.queue = r.queue]

\* The loop over reservedCallbacks calls the next callback; after the last
\* one reservedCallbacks = [].
\* The loop body followed by reservedCallbacks = [].
NextCallbackOnce(w) ==
  LET callbacks == w.picker.reservedCallbacks
      ran == RunCallback(w, Head(callbacks))
  IN IF callbacks = <<>> THEN [w EXCEPT !.picker.pc = "idle"]
     ELSE [ran EXCEPT
             !.picker.reservedCallbacks = <<>>,
             !.picker.history =
                IF @.on THEN [@ EXCEPT !.ran = Append(@, Head(callbacks))]
                ELSE @,
             !.picker.pc = "idle"]

NextCallback(w) ==
  LET callbacks == w.picker.reservedCallbacks
      ran == RunCallback(w, Head(callbacks))
  IN IF callbacks = <<>> THEN [w EXCEPT !.picker.pc = "idle"]
     ELSE [ran EXCEPT
             !.picker.reservedCallbacks = Tail(callbacks),
             !.picker.history =
                IF @.on THEN [@ EXCEPT !.ran = Append(@, Head(callbacks))]
                ELSE @,
             !.picker.pc = IF Tail(callbacks) = <<>> THEN "idle"
                           ELSE "callbacks"]

\* cmdliner.check(denops) when the command line of the host reads cmdline:
\* vim-cmdline-changed is dispatched when that differs from the last
\* observed value.
CmdlinerCheck(p, queue, cmdline) ==
  IF cmdline = p.observed THEN [picker |-> p, queue |-> queue]
  ELSE [picker |-> [p EXCEPT !.observed = cmdline, !.nInput = @ + 1],
        queue |-> dispatch(queue, Event("vim-cmdline-changed", cmdline))]

\* A scheduler tick up to the await of its first reserved callback:
\* cmdliner.check, then the event queue is consumed by #handleEvent and the
\* first reserved callback is called.  A tick that finds neither an event
\* nor a callback changes nothing.
PickerTickWith(cmdline) ==
  /\ picker.pc = "idle"
  /\ picker.result = <<>>
  /\ NoMicrotask
  /\ cmdline # picker.observed => picker.nInput < MaxInput
  /\ LET checked == CmdlinerCheck(picker, eventQueue, cmdline)
         st == HandleEvents([picker |-> checked.picker,
                             mp |-> matchProcessor,
                             rp |-> renderProcessor,
                             db |-> debounced], checked.queue)
         w == NextCallback([picker |-> st.picker, mp |-> st.mp,
                            sp |-> sortProcessor, rp |-> st.rp,
                            pp |-> previewProcessor, queue |-> <<>>])
     IN /\ checked.queue # <<>> \/ picker.reservedCallbacks # <<>>
        /\ picker' = w.picker
        /\ matchProcessor' = w.mp
        /\ sortProcessor' = w.sp
        /\ renderProcessor' = w.rp
        /\ previewProcessor' = w.pp
        /\ debounced' = st.db
        /\ eventQueue' = w.queue
  /\ UNCHANGED notTick

\* A scheduler tick, whatever the command line of the host reads.
PickerTick == \E cmdline \in Queries : PickerTickWith(cmdline)

\* A scheduler tick while the user leaves the command line as it is.
PickerTickSameCmdline == PickerTickWith(picker.observed)

\* The tick's await of a callback returns and the next one is called.
PickerCallback ==
  /\ picker.pc = "callbacks"
  /\ LET w == NextCallback([picker |-> picker, mp |-> matchProcessor,
                            sp |-> sortProcessor, rp |-> renderProcessor,
                            pp |-> previewProcessor, queue |-> eventQueue])
     IN /\ picker' = w.picker
        /\ matchProcessor' = w.mp
        /\ sortProcessor' = w.sp
        /\ renderProcessor' = w.rp
        /\ previewProcessor' = w.pp
        /\ eventQueue' = w.queue
  /\ UNCHANGED <<notTick, debounced>>

\* *-processor-failed events of a behaviour that come from disposed pickers.
MaxStale == 3
FailedTypes ==
  {"collect-processor-failed", "match-processor-failed",
   "sort-processor-failed", "render-processor-failed",
   "preview-processor-failed"}

\* The event queue is one per plugin, not per picker.  A picker that is
\* disposed (the pickers of a submatch, or of the startPicker call before)
\* aborts its processors with null; a run then in progress is rejected with
\* null and its .catch handler dispatches *-processor-failed to the queue
\* the running picker consumes.
DisposedPickerFails ==
  /\ NoMicrotask
  /\ picker.result = <<>>
  /\ picker.nStale < MaxStale
  /\ \E type \in FailedTypes :
       eventQueue' = dispatch(eventQueue, Event(type, "null"))
  /\ picker' = [picker EXCEPT !.nStale = @ + 1]
  /\ UNCHANGED <<consumeVars, source, collectProcessor, renderProcessor,
                 matchProcessor, sortProcessor>>

\* A picker whose start has returned keeps its processors until it is
\* disposed (the action picker and the item picker of a startPicker call
\* live as long as the call): a run that is in progress when start returns
\* goes on and dispatches its events to the plugin's one queue.  The events
\* carry no picker; OtherPicker marks them here for the record, in the place
\* of the argument these events do not have.
OtherPicker == "other"
OtherPickerTypes ==
  {"collect-processor-updated", "collect-processor-succeeded",
   "match-processor-succeeded", "sort-processor-succeeded",
   "render-processor-succeeded"}
OtherPickerDispatches ==
  /\ NoMicrotask
  /\ picker.result = <<>>
  /\ picker.nStale < MaxStale
  /\ \E type \in OtherPickerTypes :
       eventQueue' = dispatch(eventQueue, Event(type, OtherPicker))
  /\ picker' = [picker EXCEPT !.nStale = @ + 1]
  /\ UNCHANGED <<consumeVars, source, collectProcessor, renderProcessor,
                 matchProcessor, sortProcessor>>

\* The user's mapping dispatches switch-previewer.
DispatchSwitchPreviewer ==
  /\ NoMicrotask
  /\ \E amount \in {1}, cycle \in BOOLEAN :
       eventQueue' =
         dispatch(eventQueue,
                  Event("switch-previewer",
                        [amount |-> amount, cycle |-> cycle]))
  /\ picker' = [picker EXCEPT !.nPreview = @ + 1]
  /\ UNCHANGED <<consumeVars, source, collectProcessor, renderProcessor,
                 matchProcessor, sortProcessor>>

\* The user's mapping dispatches switch-sorter(-at) or switch-renderer(-at).
\* The picker of the model has one sorter and one renderer, so the index the
\* handler stores is always 0 and the event's argument is left out.
SwitchStageTypes ==
  {"switch-sorter", "switch-sorter-at", "switch-renderer", "switch-renderer-at"}
UserSwitchStage ==
  /\ NoMicrotask
  /\ picker.nSwitch < MaxSwitch
  /\ \E type \in SwitchStageTypes :
       eventQueue' = dispatch(eventQueue, Event(type, NoArg))
  /\ picker' = [picker EXCEPT !.nSwitch = @ + 1]
  /\ UNCHANGED <<consumeVars, source, collectProcessor, renderProcessor,
                 matchProcessor, sortProcessor>>

\* The user's mapping dispatches switch-matcher.
DispatchSwitchMatcher ==
  /\ NoMicrotask
  /\ \E amount \in {1}, cycle \in BOOLEAN :
       eventQueue' =
         dispatch(eventQueue,
                  Event("switch-matcher", [amount |-> amount, cycle |-> cycle]))
  /\ picker' = [picker EXCEPT !.nSwitch = @ + 1]
  /\ UNCHANGED <<consumeVars, source, collectProcessor, renderProcessor,
                 matchProcessor, sortProcessor>>

UserSwitchMatcher ==
  /\ picker.nSwitch < MaxSwitch
  /\ DispatchSwitchMatcher

\* switch-matcher and switch-previewer events of a behaviour in which the
\* user switches both.
MaxTickEvents == 3
TickSwitchMatcher ==
  /\ picker.nSwitch + picker.nPreview < MaxTickEvents
  /\ DispatchSwitchMatcher
TickSwitchPreviewer ==
  /\ picker.nSwitch + picker.nPreview < MaxTickEvents
  /\ DispatchSwitchPreviewer

\* The user's mapping dispatches switch-matcher-at.
UserSwitchMatcherAt ==
  /\ NoMicrotask
  /\ picker.nSwitch < MaxSwitch
  /\ \E dollar \in BOOLEAN, index \in Matchers :
       /\ dollar => index = 0
       /\ eventQueue' =
            dispatch(eventQueue,
                     Event("switch-matcher-at",
                           [dollar |-> dollar, index |-> index]))
  /\ picker' = [picker EXCEPT !.nSwitch = @ + 1]
  /\ UNCHANGED <<consumeVars, source, collectProcessor, renderProcessor,
                 matchProcessor, sortProcessor>>

\* The user's mapping dispatches action-invoke.
UserActionInvoke ==
  /\ NoMicrotask
  /\ picker.nInvoke < MaxInvoke
  /\ picker.result = <<>>
  /\ \E name \in {"open", "submatch"} :
       eventQueue' = dispatch(eventQueue, Event("action-invoke", name))
  /\ picker' = [picker EXCEPT !.nInvoke = @ + 1]
  /\ UNCHANGED <<consumeVars, source, collectProcessor, renderProcessor,
                 matchProcessor, sortProcessor>>

\* Cmdliner.accept(denops) is served by the host: the command line is
\* accepted, which ends the input that cmdliner.input awaits (unless it has
\* ended already), and the call completes.
CmdlinerAccept ==
  /\ \E name \in picker.accepting :
       picker' = [picker EXCEPT
                    !.accepting = @ \ {name},
                    !.accepted = @ \cup {name},
                    !.inputDone = IF @ = <<>> THEN <<name>> ELSE @]
  /\ UNCHANGED <<eventQueue, consumeVars, source, collectProcessor,
                 renderProcessor, matchProcessor, sortProcessor>>

\* accept(name) continues after its await: action = name.
AcceptReturn ==
  /\ NoMicrotask
  /\ \E name \in picker.accepted :
       picker' = [picker EXCEPT !.accepted = @ \ {name}, !.action = <<name>>]
  /\ UNCHANGED <<eventQueue, consumeVars, source, collectProcessor,
                 renderProcessor, matchProcessor, sortProcessor>>

\* cmdliner.input returns the query and start returns its result.
InputReturn ==
  /\ NoMicrotask
  /\ picker.inputDone # <<>>
  /\ picker.result = <<>>
  /\ picker' = [picker EXCEPT
                  !.result = <<[action |-> picker.action,
                               query |-> picker.observed,
                               item |-> ArrayAt(matchProcessor.items,
                                                renderProcessor.cursor),
                               filteredItems |-> matchProcessor.items]>>]
  /\ UNCHANGED <<eventQueue, consumeVars, source, collectProcessor,
                 renderProcessor, matchProcessor, sortProcessor>>

\* The user's mapping dispatches select-item.
DispatchSelectItem ==
  /\ NoMicrotask
  /\ \E cursor \in {NoCursor, DollarCursor} \cup {CursorAt(n) : n \in 0..1},
        method \in Methods :
       eventQueue' =
         dispatch(eventQueue,
                  Event("select-item", [cursor |-> cursor, method |-> method]))
  /\ picker' = [picker EXCEPT !.nSelect = @ + 1]
  /\ UNCHANGED <<consumeVars, source, collectProcessor, renderProcessor,
                 matchProcessor, sortProcessor>>

UserSelectItem ==
  /\ picker.nSelect < MaxSelect
  /\ DispatchSelectItem

\* The user's mapping dispatches select-all-items.
DispatchSelectAllItems ==
  /\ NoMicrotask
  /\ \E method \in Methods :
       eventQueue' =
         dispatch(eventQueue, Event("select-all-items", [method |-> method]))
  /\ picker' = [picker EXCEPT !.nSelect = @ + 1]
  /\ UNCHANGED <<consumeVars, source, collectProcessor, renderProcessor,
                 matchProcessor, sortProcessor>>

UserSelectAllItems ==
  /\ picker.nSelect < MaxSelect
  /\ DispatchSelectAllItems

\* select-all-items events of a behaviour in which the user selects, changes
\* the query or the matcher and selects again.
MaxReselect == 2
ReselectAllItems ==
  /\ picker.nSelect < MaxReselect
  /\ DispatchSelectAllItems

\* ======================================================== session store
MAX_SESSION_COUNT == 100
\* Mock sessions in the store of a process that has run for a while.
MockSaved == 103
\* save calls of a behaviour.
MaxSave == 2
\* The largest number argument of a load.
MaxNumber == 3

\* A Set, an Array or a plain Object as JSON sees them: the elements in
\* insertion order (an Object here has no own enumerable properties).
SetOf(elems) == [kind |-> "Set", elems |-> elems]
ArrayOfElems(elems) == [kind |-> "Array", elems |-> elems]
EmptyObject == [kind |-> "Object", elems |-> <<>>]

\* Array.from(iterable)
ArrayFrom(v) == ArrayOfElems(v.elems)

\* The elements of a sequence without the repetitions, first occurrences kept.
RECURSIVE Uniq(_)
Uniq(s) ==
  IF s = <<>> THEN <<>>
  ELSE LET rest == Uniq(SubSeq(s, 1, Len(s) - 1))
       IN IF s[Len(s)] \in Range(rest) THEN rest ELSE Append(rest, s[Len(s)])

\* new Set(v): v must be iterable.
Iterable(v) == v.kind \in {"Set", "Array"}
NewSet(v) == SetOf(Uniq(v.elems))

\* JSON.parse(JSON.stringify(v)) of a Set, an Array or an Object: an Array
\* comes back as it is, a Set is written as {}.
JsonValue(v) == IF v.kind = "Array" THEN v ELSE EmptyObject

\* JSON.stringify(context): strings, finite numbers and arrays of plain
\* items are written as they are and an undefined previewerIndex (<<>>) is
\* left out; the selection is written as JSON writes its kind of value.
JsonStringify(context) == [json |-> [context EXCEPT !.selection = JsonValue(@)]]
JsonParse(text) == text.json

\* brotli.compress / brotli.uncompress: lossless.
BrotliCompress(text) == [brotli |-> text]
BrotliUncompress(bytes) == bytes.brotli

\* compressPickerSession without Array.from: the Set goes to JSON as it is.
compressPickerSessionAsIs(session) ==
  [session EXCEPT !.context = BrotliCompress(JsonStringify(session.context))]

\* compressPickerSession(session)
compressPickerSession(session) ==
  LET contextForSerialization ==
        [session.context EXCEPT !.selection = ArrayFrom(@)]
  IN [session EXCEPT
        !.context = BrotliCompress(JsonStringify(contextForSerialization))]

\* decompressPickerSession(compressed): [err, value]; new Set(...) throws a
\* TypeError when the parsed selection is not iterable.
decompressPickerSession(compressed) ==
  LET decompressedContext == JsonParse(BrotliUncompress(compressed.context))
  IN IF ~Iterable(decompressedContext.selection)
       THEN [err |-> "TypeError", value |-> <<>>]
       ELSE [err |-> "none",
             value |-> <<[compressed EXCEPT
                            !.context = [decompressedContext EXCEPT
                                           !.selection = NewSet(@)]]>>]

\* sessions.slice().reverse()
Reverse(s) == [i \in 1..Len(s) |-> s[Len(s) + 1 - i]]

\* listPickerSessions()
listPickerSessions(stored) == Reverse(stored)

\* savePickerSession without the shift.
savePickerSessionNoShift(stored, session) ==
  Append(stored, compressPickerSession(session))

\* savePickerSession(session): the stored sessions afterwards.
savePickerSession(stored, session) ==
  LET pushed == Append(stored, compressPickerSession(session))
  IN IF Len(pushed) > MAX_SESSION_COUNT THEN Tail(pushed) ELSE pushed

\* sessions.filter((s) => s.name === name) for a truthy name, else sessions.
\* The name "" stands for an omitted (or empty) name.
NoName == ""
FilterSessions(stored, name) ==
  IF name # NoName THEN SelectSeq(stored, LAMBDA s : s.name = name)
  ELSE stored

\* loadPickerSession with number counted from the oldest session.
loadPickerSessionFromFront(stored, name, number) ==
  LET filteredSessions == FilterSessions(stored, name)
      compressed == ArrayAt(filteredSessions,
                            (IF number = <<>> THEN 1 ELSE number[1]) - 1)
  IN IF compressed = <<>> THEN [err |-> "none", value |-> <<>>]
     ELSE decompressPickerSession(compressed[1])

\* loadPickerSession({name, number}): [err, value], value <<>> for undefined.
\* number is <<>> when omitted.
loadPickerSession(stored, name, number) ==
  LET filteredSessions == FilterSessions(stored, name)
      index == Len(filteredSessions) - (IF number = <<>> THEN 1 ELSE number[1])
      compressed == ArrayAt(filteredSessions, index)
  IN IF compressed = <<>> THEN [err |-> "none", value |-> <<>>]
     ELSE decompressPickerSession(compressed[1])

\* Names of the pickers the user's custom.ts defines (validatePickerName
\* lets no name through that starts with "@") and the reserved names.
PickerNames == {"file", "buf"}
SESSION_EXCLUDE_SOURCES == {"@action", "@session"}
ReservedNames == SESSION_EXCLUDE_SOURCES

\* Picker.context of a picker whose query is query and whose selection holds
\* the ids selected (in the order they were selected), once two items are
\* collected.
ContextOf(query, selected) ==
  [query |-> query,
   selection |-> SetOf(selected),
   collectedItems |-> ItemsUpTo(2),
   filteredItems |-> MatchAll(0, ItemsUpTo(2), query),
   cursor |-> 0,
   offset |-> 0,
   matcherIndex |-> 0,
   sorterIndex |-> 0,
   rendererIndex |-> 0,
   previewerIndex |-> <<>>]
SessionContexts == {ContextOf(0, <<>>), ContextOf(1, <<1, 0>>)}

Session(name, args, context) ==
  [name |-> name, args |-> args, context |-> context]

\* The store after createMockSession("file", id) is saved for id = 0..n-1:
\* the last MAX_SESSION_COUNT of them, oldest first.
MockStore(n) ==
  LET kept == Min(n, MAX_SESSION_COUNT)
  IN [i \in 1..kept |->
        compressPickerSession(
          Session("file", <<n - kept + i - 1>>, ContextOf(0, <<>>)))]

\* ================================================================ custom
\* loadUserCustom calls of a behaviour and the calls the main function of a
\* user custom makes.
MaxLoads == 3
MaxMainCalls == 3

\* The values of the setting and of the action picker parameters: the
\* defaults, or what refineSetting / refineActionPicker made of them.
DefaultParams == "default"
RefinedParams == "refined"

\* custom.ts before the first load: setting, actionPickerParams,
\* pickerParamsMap (its keys) and initialized; nLoads and last are history.
NewCustom ==
  [initialized |-> FALSE,
   setting |-> DefaultParams,
   actionPickerParams |-> DefaultParams,
   pickerParamsMap |-> {},
   nLoads |-> 0,
   last |-> [reload |-> FALSE, err |-> "none"]]

\* What the rest of the plugin reads: getSetting(), getActionPickerParams(),
\* listPickerNames().
Configuration(c) ==
  [setting |-> c.setting, actionPickerParams |-> c.actionPickerParams,
   pickers |-> c.pickerParamsMap]

\* reset()
reset(c) ==
  [c EXCEPT !.setting = DefaultParams, !.actionPickerParams = DefaultParams,
            !.pickerParamsMap = {}]

\* name.startsWith("@") for the names used here.
StartsWithAt(name) == name \in {"@invalid", "@action", "@session"}

\* The calls a main function makes on its context.
MainCalls ==
  {[fn |-> "refineSetting", name |-> "", action |-> ""],
   [fn |-> "refineActionPicker", name |-> "", action |-> ""]}
  \cup {[fn |-> "definePickerFromSource", name |-> n, action |-> a] :
          n \in {"file", "buf", "@invalid"}, a \in {"open", "@invalid"}}

\* One call of main on the context: [custom, err].  definePickerFromSource
\* runs validatePickerName and validateActions first.
MainCall(c, call) ==
  CASE call.fn = "refineSetting" ->
         [custom |-> [c EXCEPT !.setting = RefinedParams], err |-> "none"]
    [] call.fn = "refineActionPicker" ->
         [custom |-> [c EXCEPT !.actionPickerParams = RefinedParams],
          err |-> "none"]
    [] call.fn = "definePickerFromSource" ->
         IF call.name \in c.pickerParamsMap
           THEN [custom |-> c, err |-> "already defined"]
         ELSE IF StartsWithAt(call.name)
           THEN [custom |-> c, err |-> "picker name"]
         ELSE IF StartsWithAt(call.action)
           THEN [custom |-> c, err |-> "action name"]
         ELSE [custom |-> [c EXCEPT !.pickerParamsMap = @ \cup {call.name}],
               err |-> "none"]

\* await main(buildContext(denops)) for a main that makes the calls of
\* script in order: it ends at the first call that throws.
RECURSIVE RunMain(_, _)
RunMain(c, script) ==
  IF script = <<>> THEN [custom |-> c, err |-> "none"]
  ELSE LET r == MainCall(c, Head(script))
       IN IF r.err # "none" THEN r ELSE RunMain(r.custom, Tail(script))

\* The main function of the default custom.
DefaultScript ==
  <<[fn |-> "definePickerFromSource", name |-> "file", action |-> "open"]>>

\* The scripts of the user custom: up to MaxMainCalls calls.
RECURSIVE ScriptsOfLen(_)
ScriptsOfLen(n) ==
  IF n = 0 THEN {<<>>}
  ELSE {Append(s, call) : s \in ScriptsOfLen(n - 1), call \in MainCalls}
Scripts == UNION {ScriptsOfLen(n) : n \in 0..MaxMainCalls}

\* loadUserCustom(denops, {reload}) when the import of the user custom ends
\* with importErr ("none", or the error it throws) and its main makes the
\* calls of script.  A call that finds the custom loaded and has no reload
\* returns the promise of the load before and is no step.
loadUserCustom(c, reload, importErr, script) ==
  LET reloading == IF c.initialized THEN reload ELSE FALSE
      loaded == IF importErr # "none" THEN [custom |-> c, err |-> importErr]
                ELSE RunMain(reset(c), script)
      fallback == RunMain(reset(loaded.custom), DefaultScript)
      after == IF loaded.err = "none" \/ reloading THEN loaded.custom
               ELSE fallback.custom
  IN [after EXCEPT !.initialized = TRUE, !.nLoads = @ + 1,
                   !.last = [reload |-> reloading, err |-> loaded.err]]

\* The entrypoint with no picker running.  saved, loadArgs and loaded are
\* history: the session saved last, and the arguments and the outcome of the
\* load made last.
NewMain(nSaved) ==
  [stack |-> <<>>,       \* the startPicker calls in progress, outermost first
   err |-> "none",       \* the error reported last
   returned |-> <<>>,    \* what the outermost startPicker returned last
   nCommands |-> 0,      \* history: commands run
   nResults |-> 0,       \* history: results of itemPicker.start
   invokes |-> 0,        \* history: calls of action.invoke
   nSaved |-> nSaved,
   nNew |-> 0,
   saved |-> <<>>,
   loadArgs |-> <<>>,
   loaded |-> [err |-> "none", value |-> <<>>],
   custom |-> NewCustom]  \* custom.ts: the module's configuration

\* await savePickerSession(session); the args carry the number of sessions
\* saved before, which tells the saved sessions apart.
SessionSaveWith(name, context) ==
  /\ main.nNew < MaxSave
  /\ LET session == Session(name, <<main.nSaved>>, context)
     IN /\ sessions' = savePickerSession(sessions, session)
        /\ main' = [main EXCEPT !.nSaved = @ + 1, !.nNew = @ + 1,
                                !.saved = <<session>>]
  /\ UNCHANGED notMain

SessionSave ==
  \E name \in PickerNames \cup ReservedNames, context \in SessionContexts :
    SessionSaveWith(name, context)

\* await loadPickerSession({name, number})
SessionLoadWith(name, number) ==
  /\ main' = [main EXCEPT
                !.loadArgs = <<[name |-> name, number |-> number]>>,
                !.loaded = loadPickerSession(sessions, name, number)]
  /\ UNCHANGED <<sessions, notMain>>

LoadNames == {NoName, "file", "buf"}
LoadNumbers == {<<>>} \cup {<<n>> : n \in 0..MaxNumber}

SessionLoad ==
  \E name \in LoadNames, number \in LoadNumbers : SessionLoadWith(name, number)

\* ============================================================ startPicker
\* Commands, results of itemPicker.start and nested startPicker calls of a
\* behaviour.
MaxCommands == 2
MaxResults == 2
MaxDepth == 2

\* pickerParams.actions of the item pickers and their defaultAction; "nope"
\* is an action name no picker defines.
Actions == {"open", "submatch"}
DefaultAction == "open"
RequestedActions == Actions \cup {"nope"}

\* Picker.context of a picker that is constructed without a context.
FreshContext ==
  [ContextOf(0, <<>>) EXCEPT !.collectedItems = <<>>, !.filteredItems = <<>>]
\* Picker.context when itemPicker.start returns.
RoundContexts == {ContextOf(query, selected) :
                    query \in Queries, selected \in {<<>>, <<0>>}}

\* A startPicker call that has opened its item picker and awaits
\* itemPicker.start: pc is "item", "action" (awaits actionPicker.start),
\* "invoke" (awaits action.invoke), "nested" (the action runs a submatch
\* picker) or "returned" (the submatch picker has returned ret).
Frame(name, args, context) ==
  [name |-> name, args |-> args, context |-> context,
   pc |-> "item",
   itemOpen |-> TRUE,       \* the windows of the item picker are open
   actionOpen |-> FALSE,    \* the windows of the action picker are open
   starts |-> 1,            \* history: calls of itemPicker.start
   invoking |-> "",
   ret |-> <<>>]

Top == main.stack[Len(main.stack)]
WithTop(m, f) == [m EXCEPT !.stack[Len(m.stack)] = f]

\* startPicker(denops, args, pickerParams, {context}) up to the first await
\* of itemPicker.start.
StartPicker(m, name, args, context) ==
  [m EXCEPT !.stack = Append(@, Frame(name, args, context))]

\* The disposal of startPicker's stack without the test of the name.
ExitPickerSaveAll(stored, m, ret, err) ==
  LET f == m.stack[Len(m.stack)]
      rest == SubSeq(m.stack, 1, Len(m.stack) - 1)
      session == Session(f.name, f.args, f.context)
  IN [sessions |-> savePickerSession(stored, session),
      main |->
        [m EXCEPT
           !.stack = IF rest = <<>> THEN rest
                     ELSE [rest EXCEPT ![Len(rest)].pc = "returned",
                                       ![Len(rest)].ret = <<ret>>],
           !.returned = IF rest = <<>> THEN <<ret>> ELSE @,
           !.err = IF err = "none" THEN @ ELSE err,
           !.nSaved = @ + 1,
           !.saved = <<session>>]]

\* startPicker returns ret ("true" or "undefined") or throws err: its stack
\* is disposed, which closes the windows of the item picker, saves the
\* session unless the name is excluded and disposes the two pickers.  A
\* nested call hands ret to the submatch action that awaits it.
ExitPicker(stored, m, ret, err) ==
  LET f == m.stack[Len(m.stack)]
      rest == SubSeq(m.stack, 1, Len(m.stack) - 1)
      excluded == f.name \in SESSION_EXCLUDE_SOURCES
      session == Session(f.name, f.args, f.context)
  IN [sessions |-> IF excluded THEN stored
                   ELSE savePickerSession(stored, session),
      main |->
        [m EXCEPT
           !.stack = IF rest = <<>> THEN rest
                     ELSE [rest EXCEPT ![Len(rest)].pc = "returned",
                                       ![Len(rest)].ret = <<ret>>],
           !.returned = IF rest = <<>> THEN <<ret>> ELSE @,
           !.err = IF err = "none" THEN @ ELSE err,
           !.nSaved = IF excluded THEN @ ELSE @ + 1,
           !.saved = IF excluded THEN @ ELSE <<session>>]]

\* The action is looked up and invoked; an unknown name is an ExpectedError.
InvokeAction(stored, m, actionName) ==
  IF actionName \in Actions
    THEN [sessions |-> stored,
          main |-> [WithTop(m, [m.stack[Len(m.stack)] EXCEPT
                                  !.pc = "invoke", !.actionOpen = FALSE,
                                  !.invoking = actionName])
                      EXCEPT !.invokes = @ + 1]]
    ELSE ExitPicker(stored, m, "undefined", "No action is found")

\* The loop of startPicker goes round: itemPicker.start is called again.
NextRound(f) ==
  [f EXCEPT !.pc = "item", !.actionOpen = FALSE, !.starts = @ + 1,
            !.invoking = "", !.ret = <<>>]

\* custom:reload, or the load before the first command.
LoadUserCustom ==
  /\ main.stack = <<>>
  /\ main.custom.nLoads < MaxLoads
  /\ \E reload \in BOOLEAN, importErr \in {"none", "NotFound"},
        script \in Scripts :
       /\ main.custom.initialized => reload
       /\ importErr # "none" => script = <<>>
       /\ main' = [main EXCEPT
                     !.custom = loadUserCustom(@, reload, importErr, script)]
  /\ UNCHANGED <<sessions, notMain>>

\* :Fall {name}
PickerCommand ==
  /\ main.stack = <<>>
  /\ main.nCommands < MaxCommands
  /\ \E name \in PickerNames :
       main' = [StartPicker(main, name, <<>>, FreshContext)
                  EXCEPT !.nCommands = @ + 1, !.err = "none", !.returned = <<>>]
  /\ UNCHANGED <<sessions, notMain>>

\* :FallSession
SessionCommand ==
  /\ main.stack = <<>>
  /\ main.nCommands < MaxCommands
  /\ main' = [StartPicker(main, "@session", <<>>, FreshContext)
                EXCEPT !.nCommands = @ + 1, !.err = "none", !.returned = <<>>]
  /\ UNCHANGED <<sessions, notMain>>

\* :FallResume {name}#{number}: resumePicker(denops, filter)
ResumeCommandWith(name, number) ==
  /\ main.stack = <<>>
  /\ main.nCommands < MaxCommands
  /\ LET loaded == loadPickerSession(sessions, name, <<number>>)
         m == [main EXCEPT
                 !.nCommands = @ + 1, !.err = "none", !.returned = <<>>,
                 !.loadArgs = <<[name |-> name, number |-> <<number>>]>>,
                 !.loaded = loaded]
     IN main' =
          IF loaded.err # "none" THEN [m EXCEPT !.err = loaded.err]
          ELSE IF loaded.value = <<>>
            THEN [m EXCEPT !.err = "Picker session is not available"]
          ELSE IF loaded.value[1].name \notin PickerNames
            THEN [m EXCEPT !.err = "No item picker is found"]
          ELSE StartPicker(m, loaded.value[1].name, loaded.value[1].args,
                           loaded.value[1].context)
  /\ UNCHANGED <<sessions, notMain>>

ResumeCommand ==
  \E name \in LoadNames, number \in 1..MaxNumber :
    ResumeCommandWith(name, number)

\* itemPicker.start returns: undefined (cancelled), or a result whose action
\* is "@select", a name, or undefined (the default action).
ItemPickerReturn ==
  /\ main.stack # <<>>
  /\ Top.pc = "item"
  /\ main.nResults < MaxResults
  /\ \E context \in RoundContexts,
        action \in {"cancelled", "@select", "default"} \cup RequestedActions :
       LET m == [WithTop(main, [Top EXCEPT !.context = context])
                   EXCEPT !.nResults = @ + 1]
           r == CASE action = "cancelled" ->
                       ExitPicker(sessions, m, "true", "none")
                  [] action = "@select" ->
                       [sessions |-> sessions,
                        main |-> WithTop(m, [m.stack[Len(m.stack)] EXCEPT
                                               !.pc = "action",
                                               !.actionOpen = TRUE])]
                  [] action = "default" ->
                       InvokeAction(sessions, m, DefaultAction)
                  [] OTHER -> InvokeAction(sessions, m, action)
       IN sessions' = r.sessions /\ main' = r.main
  /\ UNCHANGED notMain

\* actionPicker.start with a cancelled action picker handled like a result
\* without an item.
ActionPickerReturnExits(result) ==
  /\ main.stack # <<>>
  /\ Top.pc = "action"
  /\ LET r == IF result \in {"cancelled", "no item"}
                THEN ExitPicker(sessions, main, "true", "none")
              ELSE InvokeAction(sessions, main, result)
     IN sessions' = r.sessions /\ main' = r.main
  /\ UNCHANGED notMain

\* actionPicker.start returns: undefined ("cancelled"), a result without an
\* item ("no item"), or a result whose item names an action.  The action
\* picker is closed when the block is left.
ActionPickerReturnWith(result) ==
  /\ main.stack # <<>>
  /\ Top.pc = "action"
  /\ LET r == CASE result = "cancelled" ->
                     [sessions |-> sessions,
                      main |-> WithTop(main, NextRound(Top))]
                [] result = "no item" ->
                     ExitPicker(sessions, main, "true", "none")
                [] OTHER -> InvokeAction(sessions, main, result)
     IN sessions' = r.sessions /\ main' = r.main
  /\ UNCHANGED notMain

ActionPickerReturn ==
  \E result \in {"cancelled", "no item"} \cup Actions :
    ActionPickerReturnWith(result)

\* submatchStart with the test of the nested picker's result negated.
submatchStartNegated(result) == result # "true"

\* submatchStart: what the submatch action returns (TRUE for true, FALSE for
\* undefined) when the nested "picker" dispatch returned result.
submatchStart(result) == result = "true"

\* action.invoke with the test of its result inverted.
InvokeReturnInverted(truthy) ==
  /\ main.stack # <<>>
  /\ \/ Top.pc = "invoke"
     \/ Top.pc = "returned" /\ truthy = submatchStart(Top.ret[1])
  /\ LET r == IF ~truthy
                THEN [sessions |-> sessions,
                      main |-> WithTop(main, NextRound(Top))]
              ELSE ExitPicker(sessions, main, "undefined", "none")
     IN sessions' = r.sessions /\ main' = r.main
  /\ UNCHANGED notMain

\* action.invoke returns a truthy or a falsy value; the submatch action
\* returns true exactly when its picker returned true.
InvokeReturnWith(truthy) ==
  /\ main.stack # <<>>
  /\ \/ Top.pc = "invoke"
     \/ Top.pc = "returned" /\ truthy = submatchStart(Top.ret[1])
  /\ LET r == IF truthy
                THEN [sessions |-> sessions,
                      main |-> WithTop(main, NextRound(Top))]
              ELSE ExitPicker(sessions, main, "undefined", "none")
     IN sessions' = r.sessions /\ main' = r.main
  /\ UNCHANGED notMain

InvokeReturn == \E truthy \in BOOLEAN : InvokeReturnWith(truthy)

\* The submatch action dispatches "picker" with the parameters of the
\* picker it was invoked from: a nested startPicker of the same name.
InvokeSubmatch ==
  /\ main.stack # <<>>
  /\ Len(main.stack) < MaxDepth
  /\ Top.pc = "invoke"
  /\ Top.invoking = "submatch"
  /\ main' = StartPicker(WithTop(main, [Top EXCEPT !.pc = "nested"]),
                         Top.name, <<>>, FreshContext)
  /\ UNCHANGED <<sessions, notMain>>


InitMainIdle ==
  /\ sessions = <<>>
  /\ main = NewMain(0)
  /\ debounced = NewDebounce
  /\ previewProcessor = NewPreviewProcessor

\* A store that is new, or the store after MockSaved saves.
InitSession ==
  \/ InitMainIdle
  \/ /\ sessions = MockStore(MockSaved)
     /\ main = NewMain(MockSaved)
     /\ debounced = NewDebounce
     /\ previewProcessor = NewPreviewProcessor

InitPickerIdle ==
  /\ matchProcessor = NewMatchProcessor(FALSE)
  /\ sortProcessor = NewSortProcessor
  /\ picker = NewPicker

InitEvent ==
  /\ eventQueue = <<>>
  /\ consumer = IdleConsumer
  /\ delivered = <<>>
  /\ nDispatched = 0
  /\ dispatchedDuring = {}

InitCollectIdle ==
  /\ source = NewSource("any")
  /\ collectProcessor = NewCollectProcessor(<<>>)

InitCollect ==
  /\ source \in {NewSource("any"), NewSource("inf")}
  /\ collectProcessor \in {NewCollectProcessor(init) : init \in InitialItemSets}

SpecEventInit ==
  InitEvent /\ InitCollectIdle /\ InitRenderIdle /\ InitPickerIdle /\ InitMainIdle
SpecEventNext ==
  \/ EvDispatch
  \/ EvConsumeBegin
  \/ EvConsumeDeliver
  \/ EvConsumeReturn
SpecEvent == SpecEventInit /\ [][SpecEventNext]_vars

\* ----------------------------------------------------------------- C9
AllEvents ==
  delivered
    \o SubSeq(consumer.events, consumer.i + 1, Len(consumer.events))
    \o eventQueue

\* C9: every dispatched event is delivered to a consumer exactly once and in
\* dispatch order: the delivered events, the rest of the consume in progress
\* and the queue are together the dispatched events 1..n in order.  A consume
\* in progress holds only events dispatched before it began, and everything
\* dispatched since (by its consumer) waits in the queue for the next consume.
C9_FifoExactlyOnce ==
  /\ Len(AllEvents) = nDispatched
  /\ \A k \in 1..Len(AllEvents) : AllEvents[k].arg = k
  /\ consumer.active =>
       /\ \A k \in 1..Len(consumer.events) : consumer.events[k].arg <= consumer.mark
       /\ \A k \in 1..Len(eventQueue) : eventQueue[k].arg > consumer.mark
  /\ (~consumer.active) =>
       \A k \in 1..Len(delivered) : delivered[k].arg <= consumer.mark

\* An event dispatched by the consumer during one consume has been delivered
\* by a later one, while that later consume is itself still in progress.
C9_Witness ==
  /\ consumer.active
  /\ \E k \in 1..Len(delivered) : delivered[k].arg \in dispatchedDuring
  /\ \E k \in 1..Len(eventQueue) : eventQueue[k].arg \in dispatchedDuring

\* ------------------------------------------------------------ SpecCollect
SpecCollectInit ==
  InitEvent /\ InitCollect /\ InitRenderIdle /\ InitPickerIdle /\ InitMainIdle
SpecCollectNext ==
  \/ CollectStart
  \/ CollectNext
  \/ CollectResumed
  \/ CollectPause
  \/ CollectDispose
SpecCollect == SpecCollectInit /\ [][SpecCollectNext]_vars

collectItems == collectProcessor.list.items

\* C5: no two items of the collected list have the same value.
C5_DistinctValues ==
  \A i, j \in 1..Len(collectItems) :
    i < j => collectItems[i].value # collectItems[j].value

\* The source has repeated a value and the run has published what it kept.
C5_Witness ==
  /\ source.repeated
  /\ collectProcessor.pc = "done" /\ collectProcessor.settled = "ok"
  /\ Len(collectItems) >= 2

\* C6: no two items of the collected list have the same id (stated for a
\* processor constructed without initialItems).
C6_DistinctIds ==
  collectProcessor.initial = <<>> =>
    \A i, j \in 1..Len(collectItems) :
      i < j => collectItems[i].id # collectItems[j].id

\* C7: every item's id is its 0-based position in the collected list (stated
\* for a processor constructed without initialItems).
C7_IdIsPosition ==
  collectProcessor.initial = <<>> =>
    \A i \in 1..Len(collectItems) : collectItems[i].id = i - 1

\* The events dispatched by the step (the queue is only appended to here).
NewEvents == SubSeq(eventQueue', Len(eventQueue) + 1, Len(eventQueue'))

\* C4: once the collect processor is disposed its run publishes nothing: the
\* collected list does not change and no collect-processor-updated or
\* collect-processor-succeeded is dispatched.  (The failed event that carries
\* the null sentinel of the cancellation is not counted as a failure.)
C4_NothingPublishedAfterDispose ==
  [][collectProcessor.aborted =>
       /\ collectProcessor'.list = collectProcessor.list
       /\ \A k \in 1..Len(NewEvents) :
            NewEvents[k].type \notin
              {"collect-processor-updated", "collect-processor-succeeded"}]_vars

\* --------------------------------------------------------- SpecCollectInf
\* The collect processor on a source that never ends; the run's continuations
\* are scheduled whenever they can run.
SpecCollectInfInit ==
  /\ InitEvent
  /\ source = NewSource("inf")
  /\ collectProcessor \in {NewCollectProcessor(init) : init \in InitialItemSets}
  /\ InitRenderIdle
  /\ InitPickerIdle
  /\ InitMainIdle
SpecCollectInf ==
  /\ SpecCollectInfInit
  /\ [][SpecCollectNext]_vars
  /\ WF_vars(CollectNext)
  /\ WF_vars(CollectResumed)

\* C8: on a source that never ends and yields pairwise distinct values, a run
\* that is started ends unless it is left waiting on a pause; when it has
\* ended without being disposed the collected list of a processor constructed
\* without initialItems holds exactly Threshold items, and
\* collect-processor-succeeded has been dispatched exactly once and
\* collect-processor-failed never.
C8_ThresholdRun ==
  /\ [](/\ CountEvents("collect-processor-succeeded") <= 1
        /\ (~collectProcessor.aborted) => CountEvents("collect-processor-failed") = 0
        /\ (collectProcessor.pc = "done" /\ ~collectProcessor.aborted) =>
             /\ CountEvents("collect-processor-succeeded") = 1
             /\ collectProcessor.initial = <<>> =>
                  Len(collectItems) = Threshold)
  /\ [](collectProcessor.processing =>
          <>(collectProcessor.pc = "done" \/ collectProcessor.pc = "paused"))

\* A run on the endless source has ended at the threshold.
C8_Witness ==
  /\ source.kind = "inf"
  /\ collectProcessor.initial = <<>>
  /\ ~collectProcessor.aborted
  /\ collectProcessor.pc = "done"
  /\ collectProcessor.taken = Threshold
  /\ Len(collectItems) = Threshold

\* ------------------------------------------------------------- SpecRender
\* The render processor driven by cursor moves, starts and layout changes.
SpecRenderInit ==
  InitEvent /\ InitCollectIdle /\ InitRender /\ InitPickerIdle /\ InitMainIdle
SpecRenderNext ==
  \/ RenderStart
  \/ RenderSettle
  \/ RenderThrow
  \/ RenderCatch
  \/ RenderFinally
  \/ RenderThen
  \/ RenderMoveCursor
  \/ RenderMoveCursorAt
  \/ RenderSetHeight
  \/ RenderDispose
SpecRender == SpecRenderInit /\ [][SpecRenderNext]_vars

\* C10: the cursor of the render processor is never negative and stays below
\* max(1, itemCount), whatever cursor moves and render runs have happened,
\* an empty item list included.
C10_CursorInRange ==
  /\ renderProcessor.cursor >= 0
  /\ renderProcessor.cursor < Max(1, renderProcessor.itemCount)

\* ------------------------------------------------------------- SpecPicker
\* The picker on a source of SeqLen distinct values, up to its match stage:
\* collect and match runs, scheduler ticks, changes of the command line and
\* switch-matcher events.  The sort run that the tick starts has not returned
\* yet; nothing downstream of the match processor feeds back into it.
SpecPickerInit ==
  /\ InitEvent
  /\ source = NewSource("seq")
  /\ collectProcessor = NewCollectProcessor(<<>>)
  /\ InitRenderIdle
  /\ InitPickerIdle
  /\ InitMainIdle
SpecPickerNext ==
  \/ CollectStart
  \/ CollectNext
  \/ MatchNext
  \/ MatchDelay
  \/ MatchCatch
  \/ MatchFinally
  \/ MatchThen
  \/ PickerTick
  \/ PickerCallback
  \/ UserSwitchMatcher
  \/ UserSwitchMatcherAt
SpecPicker == SpecPickerInit /\ [][SpecPickerNext]_vars

\* Nothing is left that starts a match run: the source is exhausted, no event
\* is pending, the tick has run its callbacks, the command line is the one
\* last observed and the match processor is idle with nothing reserved.
MatchQuiescent ==
  /\ collectProcessor.pc = "done"
  /\ eventQueue = <<>>
  /\ picker.pc = "idle"
  /\ picker.reservedCallbacks = <<>>
  /\ picker.cmdline = picker.observed
  /\ ~matchProcessor.processing
  /\ matchProcessor.pc = "idle"
  /\ matchProcessor.chain = "none"
  /\ matchProcessor.reserved = <<>>

\* C1: once no event is pending and the match processor is idle, the
\* published matched list is what a matcher yields for the last query of the
\* command line (on the items the run that published it was given).
C1_ListIsForLastQuery ==
  (MatchQuiescent /\ matchProcessor.invoked > 0) =>
    \E m \in Matchers :
      matchProcessor.items =
        MatchAll(m, matchProcessor.given, picker.cmdline)

\* C3: once no event is pending and the match processor is idle, the
\* published matched list is what the active matcher yields for some query
\* (on the items the run that published it was given).
C3_ListIsByActiveMatcher ==
  (MatchQuiescent /\ matchProcessor.invoked > 0) =>
    \E q \in Queries :
      matchProcessor.items =
        MatchAll(matchProcessor.matcherIndex, matchProcessor.given, q)

\* -------------------------------------------------------------- SpecMatch
\* The match processor called directly with a fixed list of items.
SpecMatchInit ==
  /\ InitEvent
  /\ InitCollectIdle
  /\ InitRenderIdle
  /\ matchProcessor \in {NewMatchProcessor(inc) : inc \in BOOLEAN}
  /\ sortProcessor = NewSortProcessor
  /\ picker = NewPicker
  /\ InitMainIdle
SpecMatchNext ==
  \/ MatchStart
  \/ MatchSwitch
  \/ MatchDispose
  \/ MatchNext
  \/ MatchThrow
  \/ MatchDelay
  \/ MatchCatch
  \/ MatchFinally
  \/ MatchThen
SpecMatch == SpecMatchInit /\ [][SpecMatchNext]_vars

\* C2: a start() whose query is the previous query does not call the matcher
\* and leaves the run in progress and the published list as they are; it
\* dispatches match-processor-succeeded, and nothing else, exactly when the
\* processor is not processing.
C2_SameQueryNoOp ==
  [][\A query \in Queries, restart \in BOOLEAN :
       (MatchStartWith(query, restart)
          /\ matchProcessor.previousQuery = <<query>>) =>
         /\ matchProcessor'.items = matchProcessor.items
         /\ matchProcessor'.invoked = matchProcessor.invoked
         /\ matchProcessor'.pc = matchProcessor.pc
         /\ matchProcessor'.signalAborted = matchProcessor.signalAborted
         /\ matchProcessor'.reserved = matchProcessor.reserved
         /\ NewEvents =
              IF matchProcessor.processing THEN <<>>
              ELSE <<Event("match-processor-succeeded", NoArg)>>]_vars

\* Two starts with the same query, the second on the idle processor: the
\* matcher was called once and succeeded was dispatched twice.
C2_Witness ==
  /\ matchProcessor.starts = 2
  /\ matchProcessor.invoked = 1
  /\ matchProcessor.err = "none"
  /\ matchProcessor.items # <<>>
  /\ CountEvents("match-processor-succeeded") = 2
  /\ CountEvents("match-processor-failed") = 0

\* ------------------------------------------------------------ selection
\* The picker with its collect and match processors running while the user
\* selects items.
\* The user selects once the list shows an item.
SelectListedItem == matchProcessor.items # <<>> /\ UserSelectItem
SelectListedItems == matchProcessor.items # <<>> /\ UserSelectAllItems
SpecSelectInit == SpecPickerInit
SpecSelectNext ==
  \/ CollectStart
  \/ CollectNext
  \/ MatchNext
  \/ MatchDelay
  \/ MatchCatch
  \/ MatchFinally
  \/ MatchThen
  \/ PickerTickSameCmdline
  \/ PickerCallback
  \/ SelectListedItem
  \/ SelectListedItems
SpecSelect == SpecSelectInit /\ [][SpecSelectNext]_vars

collectedIds == {collectItems[i].id : i \in 1..Len(collectItems)}

SpecSessionInit ==
  InitEvent /\ InitCollectIdle /\ InitRenderIdle /\ InitPickerIdle /\ InitSession
SpecSessionNext ==
  \/ SessionSave
  \/ SessionLoad
SpecSession == SpecSessionInit /\ [][SpecSessionNext]_vars

\* C12: the store holds at most MAX_SESSION_COUNT sessions; the session
\* saved last is first in list() and last in the store; list() is in reverse
\* save order, and it holds exactly the sessions saved last: an overflowing
\* save evicts the oldest one.
C12_RingBound ==
  LET list == listPickerSessions(sessions)
  IN /\ Len(sessions) <= MAX_SESSION_COUNT
     /\ Len(sessions) = Min(main.nSaved, MAX_SESSION_COUNT)
     /\ main.saved # <<>> =>
          /\ list[1] = compressPickerSession(main.saved[1])
          /\ sessions[Len(sessions)] = list[1]
     /\ \A i \in 1..Len(list) : list[i].args = <<main.nSaved - i>>

\* After s0..s104 are saved, list() has 100 entries from s104 down to s5.
C12_Witness ==
  /\ main.nSaved = 105
  /\ Len(listPickerSessions(sessions)) = 100
  /\ listPickerSessions(sessions)[1].args = <<104>>
  /\ listPickerSessions(sessions)[100].args = <<5>>

\* The positions in list() (most recent first) of the sessions that pass
\* the name filter.
Passing(name) ==
  {i \in 1..Len(sessions) :
     name = NoName \/ listPickerSessions(sessions)[i].name = name}
\* The n-th most recently saved session that passes the name filter.
NthRecent(name, n) ==
  LET passing == Passing(name)
  IN listPickerSessions(sessions)[
       CHOOSE i \in passing : Cardinality({j \in passing : j <= i}) = n]
NumberOf(number) == IF number = <<>> THEN 1 ELSE number[1]

C14_LoadOutOfRange ==
  [][\A name \in LoadNames, number \in LoadNumbers :
       (/\ main'.loadArgs = <<[name |-> name, number |-> number]>>
        /\ SessionLoadWith(name, number)
        /\ NumberOf(number) \notin 1..Cardinality(Passing(name)))
       => main'.loaded.value = <<>>
    ]_vars

\* C15: a save of a session with a reserved name leaves the stored sessions
\* as they are.
C15_ReservedRejected ==
  [][\A name \in ReservedNames, context \in SessionContexts :
       SessionSaveWith(name, context) => sessions' = sessions
    ]_vars

SpecMainInit ==
  InitEvent /\ InitCollectIdle /\ InitRenderIdle /\ InitPickerIdle /\ InitMainIdle
SpecMainNext ==
  \/ PickerCommand
  \/ SessionCommand
  \/ ResumeCommand
  \/ ItemPickerReturn
  \/ ActionPickerReturn
  \/ InvokeReturn
  \/ InvokeSubmatch
SpecMain == SpecMainInit /\ [][SpecMainNext]_vars

\* C16: whatever item pickers, action pickers, submatch pickers and session
\* pickers have run, no stored session has a name that begins with "@".
C16_NoReservedStored ==
  \A i \in 1..Len(sessions) : sessions[i].name \notin {"@action", "@session"}

\* A session picker and an item picker have run, an action was invoked, and
\* only the item picker's session is stored.
C16_Witness ==
  /\ main.stack = <<>>
  /\ main.nCommands = MaxCommands
  /\ main.returned # <<>>
  /\ Len(sessions) = 1
  /\ main.invokes = 1

\* C18: when the action picker opened for "@select" is cancelled, the item
\* picker is started again: its windows are still open, its query, selection
\* and collected items are as they were, no action is invoked and
\* startPicker does not return.
C18_CancelledActionPicker ==
  [][ActionPickerReturnWith("cancelled")
     => /\ Len(main'.stack) = Len(main.stack)
        /\ main'.stack[Len(main.stack)].pc = "item"
        /\ main'.stack[Len(main.stack)].starts = Top.starts + 1
        /\ main'.stack[Len(main.stack)].itemOpen
        /\ main'.stack[Len(main.stack)].context = Top.context
        /\ main'.invokes = main.invokes
        /\ main'.returned = main.returned
        /\ sessions' = sessions
    ]_vars

\* The item picker runs its second round after a cancelled action picker,
\* with a query and a selection.
C18_Witness ==
  /\ main.stack # <<>>
  /\ Top.pc = "item"
  /\ Top.starts = 2
  /\ ~Top.actionOpen
  /\ main.invokes = 0
  /\ Top.context = ContextOf(1, <<0>>)

\* C19: after action.invoke the item picker is started again, without being
\* closed, exactly when invoke returned a truthy value; on a falsy value
\* startPicker returns and the picker is torn down.
C19_LoopIffTruthy ==
  [][\A truthy \in BOOLEAN :
       InvokeReturnWith(truthy)
       => /\ truthy <=> /\ Len(main'.stack) = Len(main.stack)
                        /\ main'.stack[Len(main.stack)].pc = "item"
                        /\ main'.stack[Len(main.stack)].starts = Top.starts + 1
                        /\ main'.stack[Len(main.stack)].itemOpen
          /\ ~truthy <=> Len(main'.stack) = Len(main.stack) - 1
    ]_vars

\* invoke returned a truthy value, the picker ran another round, and the
\* second invoke returned a falsy value: startPicker has returned.
C19_Witness ==
  /\ main.stack = <<>>
  /\ main.invokes = 2
  /\ main.nCommands = 1
  /\ main.returned = <<"undefined">>
  /\ main.err = "none"

\* ----------------------------------------------------------------- accept
\* The picker with its collect and match processors running while an
\* action-invoke event is dispatched and handled.
SpecAcceptInit == SpecPickerInit
SpecAcceptNext ==
  \/ CollectStart
  \/ CollectNext
  \/ MatchNext
  \/ MatchDelay
  \/ MatchCatch
  \/ MatchFinally
  \/ MatchThen
  \/ PickerTickSameCmdline
  \/ PickerCallback
  \/ UserActionInvoke
  \/ CmdlinerAccept
  \/ AcceptReturn
  \/ InputReturn
SpecAccept == SpecAcceptInit /\ [][SpecAcceptNext]_vars

\* C20: when start returns a result because an action-invoke{name} event
\* was handled, the action of the result is name, in whichever order the
\* accept call and the input call complete.
C20_ResultActionIsName ==
  picker.result # <<>> => picker.result[1].action = picker.inputDone

\* --------------------------------------------------------------- debounce
\* A debounced function is called, its signal is aborted and time passes.
SpecDebounceInit ==
  InitEvent /\ InitCollectIdle /\ InitRenderIdle /\ InitPickerIdle /\ InitMainIdle
SpecDebounceNext ==
  \/ DebounceCall
  \/ DebounceTimer
  \/ DebounceSignalAbort
  \/ DebounceTimePasses
SpecDebounce == SpecDebounceInit /\ [][SpecDebounceNext]_vars

\* The invocations made with the arguments of the i-th call.
InvokedFor(i) ==
  {k \in 1..Len(debounced.invoked) : debounced.invoked[k].args = i}
\* The i-th call is followed by another call less than the delay later.
Superseded(i) ==
  /\ i < Len(debounced.calls)
  /\ debounced.calls[i + 1].at - debounced.calls[i].at < DebounceDelay
\* The i-th call is the last of its burst: no call follows within the delay.
EndsBurst(i) ==
  \/ i = Len(debounced.calls)
  \/ debounced.calls[i + 1].at - debounced.calls[i].at > DebounceDelay
\* The signal aborted (at the latest at the time given) while the timer of
\* the i-th call was pending.
AbortedBy(i, time) ==
  /\ debounced.signal.aborted
  /\ debounced.signal.nCalls = i
  /\ debounced.signal.at <= time

\* C21: of a burst of calls, each less than the delay after the one before,
\* only the last call leads to an invocation: exactly one, the delay after
\* that call and with its arguments; an invocation pending when the signal
\* aborts never happens.
C21_DebounceBurst ==
  \A i \in 1..Len(debounced.calls) :
    LET due == debounced.calls[i].at + DebounceDelay
    IN /\ Cardinality(InvokedFor(i)) <= 1
       /\ \A k \in InvokedFor(i) : debounced.invoked[k].at = due
       /\ Superseded(i) => InvokedFor(i) = {}
       /\ AbortedBy(i, due - 1) => InvokedFor(i) = {}
       /\ (EndsBurst(i) /\ debounced.now > due /\ ~AbortedBy(i, due))
            => InvokedFor(i) # {}

\* Two calls one millisecond apart lead to one invocation, with the
\* arguments of the second; a third call is pending when the signal aborts
\* and the time of its invocation has passed.
C21_Witness ==
  /\ Len(debounced.calls) = 3
  /\ Superseded(1)
  /\ debounced.invoked =
       <<[at |-> debounced.calls[2].at + DebounceDelay, args |-> 2]>>
  /\ AbortedBy(3, debounced.calls[3].at + DebounceDelay - 1)
  /\ debounced.now > debounced.calls[3].at + DebounceDelay

\* C22: when a nested submatch picker is cancelled the submatch action
\* returns true and the outer picker goes another round with its windows
\* open; when the nested picker completes an action the submatch action
\* returns a value that is not true and the outer picker exits.
C22_SubmatchCancelKeepsOuter ==
  [][/\ (Len(main.stack) >= 2 /\ Len(main'.stack) = Len(main.stack) - 1)
        => LET outer == main'.stack[Len(main'.stack)]
           IN /\ outer.pc = "returned"
              /\ (Top.pc = "item" /\ main'.err = "none")
                   => outer.ret = <<"true">>
              /\ Top.pc \in {"invoke", "returned"}
                   => outer.ret # <<"true">>
     /\ (main.stack # <<>> /\ Top.pc = "returned" /\ main' # main)
        => IF Top.ret = <<"true">>
             THEN /\ Len(main'.stack) = Len(main.stack)
                  /\ main'.stack[Len(main.stack)].pc = "item"
                  /\ main'.stack[Len(main.stack)].itemOpen
                  /\ main'.stack[Len(main.stack)].starts = Top.starts + 1
           ELSE Len(main'.stack) = Len(main.stack) - 1
    ]_vars

\* The item picker of the outer startPicker runs its second round after the
\* submatch picker it opened was cancelled.
C22_Witness ==
  /\ Len(main.stack) = 1
  /\ Top.pc = "item"
  /\ Top.itemOpen
  /\ Top.starts = 2
  /\ main.invokes = 1
  /\ main.nResults = 2

\* ------------------------------------------------------------ reservation
\* C23: every start() call that reaches the match processor while a run is
\* in progress replaces the reservation by its own parameters, and when the
\* run has ended (on a processor that is not disposed) the reservation is
\* taken: exactly one further run starts, with the reserved parameters.
C23_LatestStartReserved ==
  [][/\ \A query \in Queries, restart \in BOOLEAN :
          (MatchStartWith(query, restart) /\ matchProcessor.processing)
          => matchProcessor'.reserved =
               <<[query |-> query, restart |-> restart]>>
     /\ (/\ matchProcessor.chain = "then"
         /\ matchProcessor'.chain = "none"
         /\ matchProcessor.reserved # <<>>
         /\ ~matchProcessor.aborted)
        => /\ matchProcessor'.processing
           /\ matchProcessor'.invoked = matchProcessor.invoked + 1
           /\ matchProcessor'.query = matchProcessor.reserved[1].query
           /\ matchProcessor'.reserved = <<>>
    ]_vars

\* ---------------------------------------------------------------- stages
\* The match, sort, render and preview processors, each started by a caller
\* and running on its own.
SpecStagesInit ==
  /\ InitEvent
  /\ InitCollectIdle
  /\ InitRenderIdle
  /\ matchProcessor \in {NewMatchProcessor(inc) : inc \in BOOLEAN}
  /\ sortProcessor \in {NewSortProcessorWith(sorter) : sorter \in BOOLEAN}
  /\ picker = NewPicker
  /\ InitMainIdle
SpecStagesNext ==
  \/ StageMatchStart
  \/ MatchNext
  \/ MatchThrow
  \/ MatchDelay
  \/ MatchCatch
  \/ MatchFinally
  \/ MatchThen
  \/ StageSortStart
  \/ SortSettle
  \/ SortThrow
  \/ SortCatch
  \/ SortFinally
  \/ SortThen
  \/ SortDispose
  \/ StageRenderStart
  \/ RenderSettle
  \/ RenderThrow
  \/ RenderCatch
  \/ RenderFinally
  \/ RenderThen
  \/ StagePreviewStart
  \/ PreviewSettle
  \/ PreviewThrow
  \/ PreviewCatch
  \/ PreviewFinally
  \/ PreviewThen
SpecStages == SpecStagesInit /\ [][SpecStagesNext]_vars

\* The step dispatches an event of the type t.
Dispatched(t) == \E k \in 1..Len(NewEvents) : NewEvents[k].type = t
\* The run of the processor p has settled and its .finally handler has run.
Settled(p) == p.pc = "idle" /\ p.chain \in {"none", "then"} /\ ~p.processing

\* C24: a run of the match, sort, render or preview processor begins (the
\* strategy is invoked and *-processor-started is dispatched) only when the
\* run before it has settled and #processing is unset, whatever start calls
\* were made, with restart or without.
C24_OneRunAtATime ==
  [][/\ (\/ Dispatched("match-processor-started")
         \/ matchProcessor'.invoked # matchProcessor.invoked)
        => Settled(matchProcessor)
     /\ Dispatched("sort-processor-started") => Settled(sortProcessor)
     /\ Dispatched("render-processor-started") => Settled(renderProcessor)
     /\ Dispatched("preview-processor-started") => Settled(previewProcessor)
    ]_vars

\* The sort processor was started three times: the second run, started from
\* the reservation, has settled and the third is in progress.
C24_Witness ==
  /\ sortProcessor.starts = 3
  /\ sortProcessor.pc = "sort"
  /\ CountEvents("sort-processor-started") = 3
  /\ CountEvents("sort-processor-succeeded") = 2

\* --------------------------------------------------------------- restart
\* C25: a run of the match processor whose signal a restart has aborted (the
\* processor is not disposed), and whose matcher does not throw an error of
\* its own, ends rejected with null
\* (match-processor-failed with err null) and dispatches no
\* match-processor-succeeded; the run begun from the reservation holds a
\* signal that is not aborted.
C25_RestartEndsWithNull ==
  [][/\ (/\ matchProcessor.signalAborted
         /\ ~matchProcessor.aborted
         /\ matchProcessor.pc # "idle"
         /\ matchProcessor'.pc = "idle"
         /\ matchProcessor'.err # "error")
        => /\ matchProcessor'.err = "null"
           /\ ~Dispatched("match-processor-succeeded")
     /\ (/\ matchProcessor.chain = "then"
         /\ matchProcessor'.invoked = matchProcessor.invoked + 1)
        => ~matchProcessor'.signalAborted ]_vars

\* ---------------------------------------------------- cancelled stages
\* A picker that ticks while the user leaves the command line alone and
\* *-processor-failed events of disposed pickers arrive.
SpecFailedInit ==
  /\ InitEvent
  /\ InitCollectIdle
  /\ InitRenderIdle
  /\ InitPickerIdle
  /\ InitMainIdle
SpecFailedNext ==
  \/ DisposedPickerFails
  \/ PickerTickSameCmdline
SpecFailed == SpecFailedInit /\ [][SpecFailedNext]_vars

\* Every event of the queue is a *-processor-failed event with err null.
OnlyCancellations(queue) ==
  \A k \in 1..Len(queue) :
    queue[k].type \in FailedTypes /\ queue[k].arg = "null"

\* C26: a tick whose events are all *-processor-failed events with err null
\* leaves the collecting and the processing status of the input component
\* as they were and reserves no callback.
C26_NullFailureIgnored ==
  [][(/\ picker.pc = "idle"
      /\ eventQueue # <<>>
      /\ OnlyCancellations(eventQueue)
      /\ picker'.nStale = picker.nStale)
     => /\ picker'.collecting = picker.collecting
        /\ picker'.processing = picker.processing
        /\ picker'.reservedCallbacks = picker.reservedCallbacks
        /\ picker'.pc = "idle" ]_vars

\* ------------------------------------------------------- scheduler tick
\* A picker resumed with the items of a session: the user switches the
\* matcher and the previewer, the match, sort and preview stages run (the
\* renderer does not return within the behaviour), and the timer of
\* reservePreviewDebounced fires during the ticks and between them.
SpecTickInit ==
  /\ InitEvent
  /\ source = NewSource("any")
  /\ collectProcessor = NewCollectProcessor(<<[id |-> 0, value |-> 1]>>)
  /\ InitRenderIdle
  /\ matchProcessor = NewMatchProcessor(FALSE)
  /\ sortProcessor = NewSortProcessor
  /\ picker = [NewPicker EXCEPT !.history.on = TRUE]
  /\ sessions = <<>>
  /\ main = NewMain(0)
  /\ debounced = [NewDebounce EXCEPT !.fn = "reserve"]
  /\ previewProcessor = NewPreviewProcessor
SpecTickNext ==
  \/ TickSwitchMatcher
  \/ TickSwitchPreviewer
  \/ PickerTickSameCmdline
  \/ PickerCallback
  \/ DebounceTimer
  \/ DebounceDelayPasses
  \/ MatchNext
  \/ MatchDelay
  \/ MatchCatch
  \/ MatchFinally
  \/ MatchThen
  \/ SortSettle
  \/ SortCatch
  \/ SortFinally
  \/ SortThen
  \/ PreviewSettle
  \/ PreviewCatch
  \/ PreviewFinally
  \/ PreviewThen
SpecTick == SpecTickInit /\ [][SpecTickNext]_vars

\* The events whose handlers call reserve, and those that call
\* reservePreviewDebounced.
Reserving(event) ==
  \/ event.type \in {"switch-matcher", "switch-matcher-at",
                     "vim-cmdline-changed", "move-cursor", "move-cursor-at",
                     "collect-processor-updated", "collect-processor-succeeded",
                     "match-processor-updated", "match-processor-succeeded",
                     "sort-processor-succeeded"}
  \/ event.type = "sort-processor-failed" /\ event.arg # "null"
ReservingDebounced(event) ==
  event.type \in {"switch-previewer", "switch-previewer-at",
                  "render-processor-succeeded"}
Count(queue, P(_)) == Cardinality({k \in 1..Len(queue) : P(queue[k])})

\* The callbacks reserved so far are those that were run, in the order in
\* which they were run, followed by those that wait, in the order in which
\* they wait.
ReservedAreRunOrWait ==
  picker.history.reserved = picker.history.ran \o picker.reservedCallbacks

\* C27: the callbacks are run in the order of their reservation, each once,
\* and none leaves the list before it is run, whether an event handler or
\* the timer of reservePreviewDebounced reserved it; the step of a tick that
\* runs the tick's first callback has handled every event that was queued
\* (each reserving handler has reserved, each debounced one has called the
\* debounced function) and has emptied the queue of them.
C27_TickRunsReservedInOrder ==
  [][/\ ReservedAreRunOrWait'
     /\ Len(picker'.history.ran) <= Len(picker.history.ran) + 1
     /\ (picker.pc = "idle" /\ picker'.history.ran # picker.history.ran)
        => /\ Len(picker'.history.reserved) =
                Len(picker.history.reserved) + Count(eventQueue, Reserving)
           /\ Len(debounced'.calls) =
                Len(debounced.calls) + Count(eventQueue, ReservingDebounced)
           /\ \A k \in 1..Len(eventQueue') :
                eventQueue'[k].type \in
                  {"match-processor-started", "match-processor-succeeded",
                   "sort-processor-started", "render-processor-started",
                   "preview-processor-started", "preview-processor-succeeded"}
    ]_vars

\* The timer fired while a tick awaited a callback: its callback, the last
\* reserved, waits behind one that a handler reserved in this tick, and two
\* callbacks were run before.
C27_Witness ==
  /\ picker.pc = "callbacks"
  /\ Len(picker.reservedCallbacks) >= 2
  /\ picker.reservedCallbacks[1].kind # "preview"
  /\ picker.reservedCallbacks[Len(picker.reservedCallbacks)].kind = "preview"
  /\ debounced.invoked # <<>>
  /\ Len(picker.history.ran) >= 2

\* ------------------------------------------------------ publication mode
\* C28: in batched mode #items changes only in the step that dispatches
\* match-processor-succeeded, match-processor-updated is never dispatched,
\* and no step of a run whose signal is aborted, nor the step in which a run
\* is rejected, changes #items; in incremental mode every step that flushes
\* a chunk into matchedItems publishes matchedItems and dispatches
\* match-processor-updated.
C28_PublishByMode ==
  [][/\ ~matchProcessor.incremental
        => /\ matchProcessor'.items # matchProcessor.items
              => Dispatched("match-processor-succeeded")
           /\ ~Dispatched("match-processor-updated")
           /\ (/\ matchProcessor.pc # "idle"
               /\ \/ matchProcessor.signalAborted
                  \/ matchProcessor'.err \in {"null", "error"})
              => matchProcessor'.items = matchProcessor.items
     /\ (/\ matchProcessor.incremental
         /\ matchProcessor.pc # "idle"
         /\ Len(matchProcessor'.matchedItems) > Len(matchProcessor.matchedItems))
        => /\ matchProcessor'.items = matchProcessor'.matchedItems
           /\ Dispatched("match-processor-updated") ]_vars

\* ------------------------------------------------------------- sort stage
\* The two sequences hold the same items, each as often.
SameItems(s, t) ==
  /\ Len(s) = Len(t)
  /\ \A x \in Range(s) \cup Range(t) :
       Cardinality({i \in 1..Len(s) : s[i] = x}) =
         Cardinality({i \in 1..Len(t) : t[i] = x})

C30_AtMostThreshold == Len(collectProcessor.list.items) <= Threshold

\* ----------------------------------------------------------------- C31
\* A picker whose start is entered and left again and again by the action
\* loop of main/picker.ts: Picker.start calls collectProcessor.start on entry
\* (part_010 536) and collectProcessor.pause when its stack is disposed (537),
\* and in between its ticks handle the events of the user.  The matcher does
\* not return within these behaviours.
\* Picker.start is between its call of collectProcessor.start and the
\* disposal of its stack: the scheduler ticks and the mappings dispatch.
PickerRuns == collectProcessor.processing /\ collectProcessor.paused = 0
ReenterTick == PickerRuns /\ PickerTickSameCmdline
ReenterSwitchMatcher == PickerRuns /\ UserSwitchMatcher
ReenterSwitchStage == PickerRuns /\ UserSwitchStage
SpecReenterInit == SpecPickerInit
SpecReenterNext ==
  \/ CollectStart
  \/ CollectPause
  \/ CollectNext
  \/ CollectResumed
  \/ ReenterTick
  \/ PickerCallback
  \/ ReenterSwitchMatcher
  \/ ReenterSwitchStage
SpecReenter == SpecReenterInit /\ [][SpecReenterNext]_vars

\* The step begins a run of the collect processor.  A step that is not a
\* tick appends to the queue; a tick empties it and its callbacks dispatch to
\* the empty queue.
IsPrefix(s, t) == Len(s) <= Len(t) /\ SubSeq(t, 1, Len(s)) = s
CollectRunBegins ==
  IF IsPrefix(eventQueue, eventQueue')
    THEN Dispatched("collect-processor-started")
    ELSE \E k \in 1..Len(eventQueue') :
           eventQueue'[k].type = "collect-processor-started"

\* C31: the run of a collect processor, in which source.collect is invoked
\* and collect-processor-started is dispatched, begins only while #processing
\* is unset, and #processing once set stays set: no start after the first,
\* and no event the picker handles, invokes source.collect again.
C31_CollectInvokedOnce ==
  [][/\ CollectRunBegins => ~collectProcessor.processing
     /\ collectProcessor.processing =>
          /\ collectProcessor'.processing
          /\ collectProcessor'.taken >= collectProcessor.taken]_vars
\* The picker was left and entered again (pause, then start resumed the
\* run) and has handled a switch event.
C31_Witness ==
  /\ collectProcessor.processing
  /\ collectProcessor.nPaused >= 1
  /\ collectProcessor.paused = 0
  /\ collectProcessor.resolved # {}
  /\ picker.nSwitch >= 1
  /\ eventQueue = <<>>
  /\ collectProcessor.taken >= 1

\* ----------------------------------------------------------------- C32
\* The run is at 'await this.#paused.promise' and the promise it awaits is
\* not resolved.
BlockedOnBarrier ==
  /\ collectProcessor.pc = "paused"
  /\ collectProcessor.awaiting \notin collectProcessor.resolved

\* C32: when the last of the pause() and start() calls on a collect processor
\* with a run in progress was start() (#paused is unset), the run is not
\* blocked on a pause barrier.
C32_LastStartUnblocks ==
  (/\ collectProcessor.processing
   /\ ~collectProcessor.aborted
   /\ collectProcessor.paused = 0) => ~BlockedOnBarrier

\* ----------------------------------------------------------------- C33
\* C33: once a collect processor is disposed its run is not blocked on a
\* pause barrier: the abort releases the barrier the run waits at.
C33_DisposeReleasesBarrier ==
  collectProcessor.aborted => ~BlockedOnBarrier

\* ----------------------------------------------------------------- C34
\* The entrypoint with an empty session store or with a full one; the
\* pickers are started with :Fall and :FallSession and by submatch actions.
SpecSavedInit ==
  /\ InitEvent /\ InitCollectIdle /\ InitRenderIdle /\ InitPickerIdle
  /\ sessions \in {<<>>, MockStore(MAX_SESSION_COUNT)}
  /\ main = NewMain(Len(sessions))
  /\ debounced = NewDebounce
  /\ previewProcessor = NewPreviewProcessor
SpecSavedNext ==
  \/ PickerCommand
  \/ SessionCommand
  \/ ItemPickerReturn
  \/ ActionPickerReturn
  \/ InvokeReturn
  \/ InvokeSubmatch
SpecSaved == SpecSavedInit /\ [][SpecSavedNext]_vars

\* The step disposes the stack of the innermost startPicker call.
PickerDisposed == Len(main'.stack) < Len(main.stack)
\* The stored sessions that are still stored after one more is pushed.
KeptSessions ==
  IF Len(sessions) >= MAX_SESSION_COUNT THEN Tail(sessions) ELSE sessions

\* C34: a step that disposes a picker run with a non-reserved name appends
\* one session, which reads back as the run's name, args and the context the
\* picker had when the run ended, and leaves the sessions that stay stored
\* as they were (the oldest is evicted from a full store); every other step
\* leaves the store unchanged.
C34_SessionPerRun ==
  [][IF PickerDisposed /\ Top.name \notin SESSION_EXCLUDE_SOURCES
       THEN /\ sessions' # <<>>
            /\ SubSeq(sessions', 1, Len(sessions') - 1) = KeptSessions
            /\ LET loaded == decompressPickerSession(sessions'[Len(sessions')])
               IN /\ loaded.err = "none"
                  /\ loaded.value[1].name = Top.name
                  /\ loaded.value[1].args = Top.args
                  /\ loaded.value[1].context = main'.saved[1].context
                  /\ Top.pc # "item" => loaded.value[1].context = Top.context
       ELSE sessions' = sessions]_vars
\* A run of an item picker ended with a full store: its session is stored
\* last and the oldest one is gone; the session picker that ran after it
\* stored nothing.
C34_Witness ==
  /\ main.stack = <<>>
  /\ main.nCommands = 2
  /\ main.invokes >= 1
  /\ Len(sessions) = MAX_SESSION_COUNT
  /\ sessions[1].args = <<1>>
  /\ decompressPickerSession(sessions[MAX_SESSION_COUNT]).value[1].context
       = ContextOf(1, <<0>>)
  /\ main.nSaved = MAX_SESSION_COUNT + 1

\* ----------------------------------------------------------------- C35
\* A picker that is resumed with two collected items (its source yields
\* nothing more) while the user selects all items, changes the query or the
\* matcher and selects all again.
SpecReselectInit ==
  /\ InitEvent
  /\ source = NewSource("any")
  /\ collectProcessor = NewCollectProcessor(ItemsUpTo(2))
  /\ InitRenderIdle
  /\ InitPickerIdle
  /\ InitMainIdle
SpecReselectNext ==
  \/ MatchNext
  \/ MatchDelay
  \/ MatchCatch
  \/ MatchFinally
  \/ MatchThen
  \/ PickerTick
  \/ PickerCallback
  \/ UserSwitchMatcher
  \/ ReselectAllItems
SpecReselect == SpecReselectInit /\ [][SpecReselectNext]_vars

\* The ids of the matched items.
MatchedIds ==
  {matchProcessor.items[i].id : i \in 1..Len(matchProcessor.items)}

\* C35: no step changes the selection outside the ids of the matched items
\* it finds: select-all-items, with any method, leaves the ids that were
\* selected earlier and are not matched now as they are.
C35_SelectAllKeepsUnmatched ==
  [][picker'.selection \ MatchedIds = picker.selection \ MatchedIds]_vars

\* ----------------------------------------------------------------- C36
\* A picker that is resumed with two collected items: the user switches the
\* matcher, the items are matched, sorted and rendered, and the user accepts.
SpecCursorInit == SpecReselectInit
SpecCursorNext ==
  \/ UserSwitchMatcher
  \/ PickerTickSameCmdline
  \/ MatchNext
  \/ MatchDelay
  \/ MatchCatch
  \/ MatchFinally
  \/ MatchThen
  \/ SortSettle
  \/ SortCatch
  \/ SortFinally
  \/ SortThen
  \/ RenderSettle
  \/ RenderCatch
  \/ RenderFinally
  \/ RenderThen
  \/ UserActionInvoke
  \/ CmdlinerAccept
  \/ AcceptReturn
  \/ InputReturn
SpecCursor == SpecCursorInit /\ [][SpecCursorNext]_vars

\* The list window shows what the render processor published last, and
\* nothing is queued, reserved or running that would change it.
ListSettled ==
  /\ eventQueue = <<>>
  /\ picker.reservedCallbacks = <<>>
  /\ picker.pc = "idle"
  /\ ~matchProcessor.processing
  /\ ~sortProcessor.processing
  /\ ~renderProcessor.processing
  /\ NoMicrotask
  /\ picker.listItems = renderProcessor.items
  /\ picker.listItems # <<>>
\* The item on the cursor line of the list window.
CursorLineItem ==
  ArrayAt(picker.listItems, renderProcessor.cursor - renderProcessor.offset)

\* C36: when start returns its result while the list is settled, the item
\* of the result is the item shown on the cursor line of the list.
C36_AcceptedIsCursorItem ==
  [][(picker.result = <<>> /\ picker'.result # <<>> /\ ListSettled)
     => /\ picker'.result[1].item # <<>>
        /\ picker'.result[1].item[1].id = CursorLineItem[1].id]_vars

\* ----------------------------------------------------------------- C37
\* A picker whose source yields its items in chunks while the user leaves
\* the command line and the matcher as they are.
SpecChunksInit == SpecPickerInit
SpecChunksNext ==
  \/ CollectStart
  \/ CollectNext
  \/ MatchNext
  \/ MatchDelay
  \/ MatchCatch
  \/ MatchFinally
  \/ MatchThen
  \/ PickerTickSameCmdline
  \/ PickerCallback
SpecChunks == SpecChunksInit /\ [][SpecChunksNext]_vars

\* C37: once collect has succeeded, nothing is pending and the processors
\* are idle, the published matched list is what the current matcher yields
\* for the current query on the complete collected list.
C37_MatchedIsComplete ==
  (MatchQuiescent /\ collectProcessor.settled = "ok") =>
    matchProcessor.items =
      MatchAll(matchProcessor.matcherIndex, collectProcessor.list.items,
               picker.cmdline)

\* ----------------------------------------------------------------- C38
\* A picker that is resumed with two collected items while the user edits
\* the query: the items are matched, sorted and rendered.  The sorter and
\* the renderer return without error and the picker is not disposed.
PipelineProgress ==
  \/ PickerCallback
  \/ MatchNext
  \/ MatchDelay
  \/ MatchCatch
  \/ MatchFinally
  \/ MatchThen
  \/ SortSettle
  \/ SortCatch
  \/ SortFinally
  \/ SortThen
  \/ RenderSettle
  \/ RenderCatch
  \/ RenderFinally
  \/ RenderThen
\* A scheduler tick that finds the command line edited.
PickerTickEdited ==
  \E cmdline \in Queries \ {picker.observed} : PickerTickWith(cmdline)
\* The guard of PickerTickSameCmdline: the tick has events to handle or
\* callbacks to run.
TickReady ==
  /\ picker.pc = "idle"
  /\ picker.result = <<>>
  /\ NoMicrotask
  /\ eventQueue # <<>> \/ picker.reservedCallbacks # <<>>
SpecPipelineInit == SpecReselectInit
SpecPipelineNext ==
  \/ PickerTickEdited
  \/ PickerTickSameCmdline
  \/ PipelineProgress
\* The matcher, the sorter and the renderer return and the promise handlers
\* run (weak fairness of PipelineProgress), and the scheduler's timer keeps
\* firing: weak fairness of PickerTickSameCmdline, written with its guard
\* TickReady in the place of ENABLED.
SpecPipeline ==
  /\ SpecPipelineInit /\ [][SpecPipelineNext]_vars
  /\ WF_vars(PipelineProgress)
  /\ ([]<>(~TickReady) \/ []<><<PickerTickSameCmdline>>_vars)

\* The sorted version of the matched list.
SortedMatched ==
  IF sortProcessor.hasSorter THEN SortDesc(matchProcessor.items)
  ELSE matchProcessor.items
\* Nothing is queued, reserved or running, and the list window shows the
\* slice at the render processor's offset of the sorted matched list.
RenderedCurrent ==
  /\ eventQueue = <<>>
  /\ picker.reservedCallbacks = <<>>
  /\ picker.pc = "idle"
  /\ ~matchProcessor.processing
  /\ ~sortProcessor.processing
  /\ ~renderProcessor.processing
  /\ NoMicrotask
  /\ sortProcessor.items = SortedMatched
  /\ renderProcessor.items =
       RenderSlice(SortedMatched, renderProcessor.offset,
                   renderProcessor.height)
  /\ picker.listItems = renderProcessor.items

\* C38: every match-processor-succeeded in the queue leads to a state where
\* the stages have run and the published window is the slice of the sorted
\* version of the matched list as it then is; requests that found the sort
\* or the render processor busy are among them.
C38_MatchedGetsRendered ==
  (\E k \in 1..Len(eventQueue) :
     eventQueue[k].type = "match-processor-succeeded") ~> RenderedCurrent
\* Match runs have succeeded and the render processor is busy with the window
\* of an earlier list while the sorted version of the matched list, another
\* list, waits as its reserved request.
C38_Witness ==
  /\ renderProcessor.processing
  /\ renderProcessor.reserved # <<>>
  /\ renderProcessor.reserved[1] = SortedMatched
  /\ renderProcessor.displayItems #
       RenderSlice(SortedMatched, renderProcessor.offset,
                   renderProcessor.height)
  /\ matchProcessor.invoked >= 2

\* ----------------------------------------------------------------- C39
\* A picker that is resumed with two collected items and matches them while
\* runs of another picker, whose start has returned, come to their end.
SpecForeignInit == SpecReselectInit
SpecForeignNext ==
  \/ MatchNext
  \/ MatchDelay
  \/ MatchCatch
  \/ MatchFinally
  \/ MatchThen
  \/ PickerTickSameCmdline
  \/ PickerCallback
  \/ OtherPickerDispatches
SpecForeign == SpecForeignInit /\ [][SpecForeignNext]_vars

\* The events the step hands to #handleEvent: a tick takes the whole queue,
\* and only a tick takes anything from it.
HandledNow == IF IsPrefix(eventQueue, eventQueue') THEN <<>> ELSE eventQueue

\* C39: the picker's tick hands to its event handler no lifecycle event that
\* a processor of another picker dispatched.
C39_OwnEventsOnly ==
  [][\A k \in 1..Len(HandledNow) : HandledNow[k].arg # OtherPicker]_vars

\* ----------------------------------------------------------------- C40
\* The user custom is loaded and reloaded.
SpecCustomInit == SpecMainInit
SpecCustomNext == LoadUserCustom
SpecCustom == SpecCustomInit /\ [][SpecCustomNext]_vars

\* C40: a reload that fails, at the import or part-way through main, leaves
\* the setting, the action picker parameters and the defined pickers as
\* they were before it.
C40_FailedReloadKeepsConfig ==
  [][(/\ main'.custom.nLoads = main.custom.nLoads + 1
      /\ main'.custom.last.reload
      /\ main'.custom.last.err # "none")
     => Configuration(main'.custom) = Configuration(main.custom)]_vars

====
